---- MODULE Spec2Model ----
(***************************************************************************)
(* Model of the code quality analysis pipeline of DeepNova                 *)
(* (backend/app/services): language detection, syntax validation, the      *)
(* single auto-correction attempt, the local metrics, the risk score and   *)
(* the two-version comparison.                                             *)
(*                                                                         *)
(* Text.  A text (submitted code, a reply of the AI client) is a sequence  *)
(* of lexemes, each lexeme a short literal piece of text.  The lexemes are *)
(* chosen so that no literal the code searches for ("#include", "if ",     *)
(* "self", ";", ...) straddles two lexemes or is a proper part of one; a   *)
(* substring test of the source is then a membership test on the lexemes.  *)
(* The two exceptions are handled where they arise: the stub marker        *)
(* "stubbed ai" is part of the lexeme "(stubbed AI)" (IsStubLexeme), and   *)
(* str.strip() cuts the blank that ends the lexemes "if " and "for "       *)
(* (RStripLexeme).                                                         *)
(*                                                                         *)
(* Numbers.  detection_confidence is kept in hundredths (0.9 is 90) and    *)
(* maintainability in tenths (98.4 is 984), so that both stay integers.    *)
(***************************************************************************)
EXTENDS Integers, Sequences, FiniteSets, TLC

VARIABLES call, cmp, calls, risk_call, fn_call

vars == <<call, cmp, calls, risk_call, fn_call>>

\* Python's None, where a string is expected, where a text is expected and
\* where a dict is expected
None == "<None>"

NoneText == <<"<None>">>

NoneDict == [none |-> TRUE]

(***************************************************************************)
(* Bounds of the model.                                                    *)
(***************************************************************************)
\* longest code submitted to analyze_code, in lexemes
MaxLen == 2
\* longest free-form correction reply of the AI client, in lexemes
MaxReplyLen == 1
\* longest code submitted on either side of compare_codes, in lexemes
MaxCmpLen == 1

SeqsUpTo(A, n) == UNION {[1..k -> A] : k \in 0..n}

(***************************************************************************)
(* Lexemes and the str methods the code uses.                              *)
(***************************************************************************)
StubText == "(stubbed AI)"

Whitespace == {" ", "\n"}

\* str.lower() of one lexeme
LowerLexeme(lx) ==
    CASE lx = "(stubbed AI)" -> "(stubbed ai)"
      [] lx = "Python" -> "python"
      [] lx = "C++" -> "c++"
      [] lx = "PY" -> "py"
      [] OTHER -> lx

Lower(text) == [i \in 1..Len(text) |-> LowerLexeme(text[i])]

\* the blank that ends a keyword lexeme is whitespace for str.strip()
RStripLexeme(lx) ==
    CASE lx = "if " -> "if"
      [] lx = "for " -> "for"
      [] OTHER -> lx

\* str.strip()
Strip(text) ==
    LET idx == {i \in 1..Len(text) : text[i] \notin Whitespace}
    IN  IF idx = {} THEN <<>>
        ELSE LET lo == CHOOSE i \in idx : \A j \in idx : i <= j
                 hi == CHOOSE i \in idx : \A j \in idx : j <= i
             IN  [k \in 1..(hi - lo + 1) |->
                     IF k = hi - lo + 1 THEN RStripLexeme(text[hi])
                                        ELSE text[lo + k - 1]]

\* `pat in text`
Contains(text, pat) == \E i \in 1..Len(text) : text[i] = pat

\* text.count(pat)
Count(text, pat) == Cardinality({i \in 1..Len(text) : text[i] = pat})

\* `"stubbed ai" in lowered`
IsStubLexeme(lx) == LowerLexeme(lx) = "(stubbed ai)"

HasStubMarker(text) == \E i \in 1..Len(text) : IsStubLexeme(text[i])

\* len(text.splitlines()): a final line break opens no further line
LineCount(text) ==
    Count(text, "\n")
      + (IF Len(text) > 0 /\ text[Len(text)] # "\n" THEN 1 ELSE 0)

\* the lines of text.splitlines() that hold something other than blanks;
\* each is identified by its first non-blank lexeme
NonBlankLineStarts(text) ==
    {i \in 1..Len(text) :
        /\ text[i] \notin Whitespace
        /\ \A j \in 1..(i - 1) :
              (\A k \in j..(i - 1) : text[k] # "\n") => text[j] = " "}

(***************************************************************************)
(* The language tag: (language or "").strip().lower() on the tags the      *)
(* model submits.                                                          *)
(***************************************************************************)
NormaliseTag(language) ==
    CASE language = None -> ""
      [] language = " PY" -> "py"
      [] language = "Python" -> "python"
      [] OTHER -> language

(***************************************************************************)
(* services/validators.py                                                  *)
(***************************************************************************)
OpeningBrackets == {"(", "{", "["}

ClosingBrackets == {")", "}", "]"}

\* the dict `closing`: closer -> opener
OpenerOf(ch) == CASE ch = ")" -> "(" [] ch = "}" -> "{" [] ch = "]" -> "["

RECURSIVE BracketScan(_, _, _)
BracketScan(code, i, stack) ==
    IF i > Len(code) THEN stack = <<>>
    ELSE IF code[i] \in OpeningBrackets
         THEN BracketScan(code, i + 1, Append(stack, code[i]))
    ELSE IF code[i] \in ClosingBrackets
         THEN IF stack = <<>> \/ stack[Len(stack)] # OpenerOf(code[i])
              THEN FALSE
              ELSE BracketScan(code, i + 1, SubSeq(stack, 1, Len(stack) - 1))
    ELSE BracketScan(code, i + 1, stack)

balanced_brackets(code) == BracketScan(code, 1, <<>>)

\* the backtick character, which a TLA+ string cannot hold
Backtick == "<backtick>"

balanced_quotes(code) ==
    /\ Count(code, "'") % 2 = 0
    /\ Count(code, "\"") % 2 = 0
    /\ Count(code, Backtick) % 2 = 0

SemicolonLanguages == {"javascript", "typescript", "java", "c", "cpp", "c++"}

(***************************************************************************)
(* ast.parse on the lexemes of the model.  "#include" opens a comment up   *)
(* to the end of the line; "'" opens a string literal that ends on its     *)
(* line, three of them in a row a triple-quoted one; adjacent name         *)
(* lexemes form one identifier, also with a keyword lexeme behind them     *)
(* ("self" "if " is the identifier selfif and a blank); a statement is one *)
(* expression: a name, a string or a parenthesised expression, followed by *)
(* call parentheses, strings only after strings; the first statement and   *)
(* every later one start in column 0.  The stripped keywords "if" and      *)
(* "for" only ever end a text (Strip).  The outcome is "" for a module     *)
(* that parses, else the message of the SyntaxError, of which the model    *)
(* tells the IndentationError from the rest.                               *)
(***************************************************************************)
NameLexemes == {"self"}

KeywordLexemes == {"if ", "for ", "if", "for"}

PyIndentError == "unexpected indent"

PySyntaxError == "invalid syntax"

PyEndLine(st) ==
    IF Len(st.stack) = 1
    THEN [st EXCEPT !.stack = <<"none">>, !.atLineStart = TRUE, !.indent = FALSE]
    ELSE st

PyIsQuote(code, k) == k <= Len(code) /\ code[k] = "'"

PySetTop(st, kind) == [st EXCEPT !.stack[Len(st.stack)] = kind]

RECURSIVE PyScan(_, _, _)
PyScan(code, i, st) ==
    IF i > Len(code)
    THEN IF st.mode \in {"string", "triple"} \/ Len(st.stack) # 1
         THEN PySyntaxError ELSE ""
    ELSE
    LET lx == code[i]
        top == st.stack[Len(st.stack)]
        cont == [st EXCEPT !.inName = FALSE]
        \* the state once a token has started on the current line
        tok == [cont EXCEPT !.atLineStart = FALSE]
    IN
    CASE st.mode = "comment" ->
           PyScan(code, i + 1,
                  IF lx = "\n" THEN PyEndLine([st EXCEPT !.mode = "code"]) ELSE st)
      [] st.mode = "string" ->
           IF lx = "\n" THEN PySyntaxError
           ELSE PyScan(code, i + 1,
                       IF lx = "'" THEN [st EXCEPT !.mode = "code"] ELSE st)
      [] st.mode = "triple" ->
           IF PyIsQuote(code, i) /\ PyIsQuote(code, i + 1) /\ PyIsQuote(code, i + 2)
           THEN PyScan(code, i + 3, [st EXCEPT !.mode = "code"])
           ELSE PyScan(code, i + 1, st)
      [] OTHER ->
           IF lx = "#include" THEN PyScan(code, i + 1, [cont EXCEPT !.mode = "comment"])
           ELSE IF lx = "\n" THEN PyScan(code, i + 1, PyEndLine(cont))
           ELSE IF lx = " "
                THEN PyScan(code, i + 1,
                            IF Len(st.stack) = 1 /\ st.atLineStart
                            THEN [cont EXCEPT !.indent = TRUE] ELSE cont)
           ELSE IF lx \in KeywordLexemes /\ st.inName
                THEN PyScan(code, i + 1, [st EXCEPT !.inName = (lx \in {"if", "for"})])
           ELSE IF lx \in NameLexemes /\ st.inName THEN PyScan(code, i + 1, st)
           ELSE IF Len(st.stack) = 1 /\ st.atLineStart /\ st.indent THEN PyIndentError
           ELSE IF lx \in KeywordLexemes THEN PySyntaxError
           ELSE IF lx \in NameLexemes
                THEN IF top # "none" THEN PySyntaxError
                     ELSE PyScan(code, i + 1, [PySetTop(tok, "N") EXCEPT !.inName = TRUE])
           ELSE IF lx = "'"
                THEN IF top \notin {"none", "S"} THEN PySyntaxError
                     ELSE IF PyIsQuote(code, i + 1) /\ PyIsQuote(code, i + 2)
                          THEN PyScan(code, i + 3, [PySetTop(tok, "S") EXCEPT !.mode = "triple"])
                          ELSE PyScan(code, i + 1, [PySetTop(tok, "S") EXCEPT !.mode = "string"])
           ELSE IF lx = "("
                THEN PyScan(code, i + 1, [tok EXCEPT !.stack = Append(tok.stack, "none")])
           ELSE IF lx = ")"
                THEN IF Len(st.stack) = 1 THEN PySyntaxError
                     ELSE PyScan(code, i + 1,
                                 PySetTop([tok EXCEPT !.stack = SubSeq(tok.stack, 1, Len(tok.stack) - 1)],
                                          "P"))
           ELSE PySyntaxError

\* str(exc) of the SyntaxError ast.parse(code) raises, "" when it raises none
ast_parse_error(code) ==
    PyScan(code, 1, [mode |-> "code", stack |-> <<"none">>, atLineStart |-> TRUE,
                     indent |-> FALSE, inName |-> FALSE])

ValidationResult(valid, error) == [valid |-> valid, error |-> error]

\* validate_code testing the tag before the emptiness of the code
validate_code_tag_first(language, code) ==
    LET lang == NormaliseTag(language)
    IN  IF lang \in {"generic", ""} THEN ValidationResult(TRUE, None)
        ELSE IF Strip(code) = <<>> THEN ValidationResult(FALSE, "Empty code")
        ELSE IF lang \in {"py", "python"}
             THEN IF ast_parse_error(code) # ""
                  THEN ValidationResult(FALSE, ast_parse_error(code))
                  ELSE ValidationResult(TRUE, None)
        ELSE IF ~balanced_brackets(code)
             THEN ValidationResult(FALSE, "Unbalanced brackets/braces")
        ELSE IF ~balanced_quotes(code)
             THEN ValidationResult(FALSE, "Unbalanced quotes")
        ELSE ValidationResult(TRUE, None)

\* validate_code with the quote check ahead of the bracket check
validate_code_quotes_first(language, code) ==
    LET lang == NormaliseTag(language)
    IN  IF Strip(code) = <<>> THEN ValidationResult(FALSE, "Empty code")
        ELSE IF lang \in {"generic", ""} THEN ValidationResult(TRUE, None)
        ELSE IF lang \in {"py", "python"}
             THEN IF ast_parse_error(code) # ""
                  THEN ValidationResult(FALSE, ast_parse_error(code))
                  ELSE ValidationResult(TRUE, None)
        ELSE IF ~balanced_quotes(code)
             THEN ValidationResult(FALSE, "Unbalanced quotes")
        ELSE IF ~balanced_brackets(code)
             THEN ValidationResult(FALSE, "Unbalanced brackets/braces")
        ELSE IF /\ Cardinality(NonBlankLineStarts(code)) >= 3
                /\ ~Contains(code, ";")
                /\ lang \in SemicolonLanguages
             THEN ValidationResult(FALSE, "No semicolons found in multi-line code")
        ELSE ValidationResult(TRUE, None)

validate_code(language, code) ==
    LET lang == NormaliseTag(language)
    IN  IF Strip(code) = <<>> THEN ValidationResult(FALSE, "Empty code")
        ELSE IF lang \in {"generic", ""} THEN ValidationResult(TRUE, None)
        ELSE IF lang \in {"py", "python"}
             THEN IF ast_parse_error(code) # ""
                  THEN ValidationResult(FALSE, ast_parse_error(code))
                  ELSE ValidationResult(TRUE, None)
        ELSE IF ~balanced_brackets(code)
             THEN ValidationResult(FALSE, "Unbalanced brackets/braces")
        ELSE IF ~balanced_quotes(code)
             THEN ValidationResult(FALSE, "Unbalanced quotes")
        ELSE IF /\ Cardinality(NonBlankLineStarts(code)) >= 3
                /\ ~Contains(code, ";")
                /\ lang \in SemicolonLanguages
             THEN ValidationResult(FALSE, "No semicolons found in multi-line code")
        ELSE ValidationResult(TRUE, None)

(***************************************************************************)
(* services/language_detector.py                                           *)
(***************************************************************************)
\* the keys of `signals`, in the order the dict is iterated
SignalLanguages == <<"python", "javascript", "java", "cpp", "c", "typescript">>

Signals(lang) ==
    CASE lang = "python" ->
           {"def ", "import ", "print(", "async def", "self", "elif ", "lambda "}
      [] lang = "javascript" ->
           {"console.log", "function ", "=>", "var ", "let ", "const "}
      [] lang = "java" -> {"public class", "system.out", "public static void"}
      [] lang = "cpp" -> {"#include", "std::", "cout<<", "cout <<"}
      [] lang = "c" -> {"printf(", "scanf(", "int main("}
      [] lang = "typescript" -> {"interface ", "type ", ": string", ": number"}

SignalScore(code, lang) ==
    Cardinality({pat \in Signals(lang) : Contains(Lower(code), pat)})

\* the loop keeping the last language with the highest score
RECURSIVE PickBest_keeps_last(_, _, _, _)
PickBest_keeps_last(code, i, best_lang, best_score) ==
    IF i > Len(SignalLanguages) THEN <<best_lang, best_score>>
    ELSE IF SignalScore(code, SignalLanguages[i]) >= best_score
         THEN PickBest_keeps_last(code, i + 1, SignalLanguages[i],
                                  SignalScore(code, SignalLanguages[i]))
         ELSE PickBest_keeps_last(code, i + 1, best_lang, best_score)

\* the loop that keeps the first language with the strictly highest score
RECURSIVE PickBest(_, _, _, _)
PickBest(code, i, best_lang, best_score) ==
    IF i > Len(SignalLanguages) THEN <<best_lang, best_score>>
    ELSE IF SignalScore(code, SignalLanguages[i]) > best_score
         THEN PickBest(code, i + 1, SignalLanguages[i],
                       SignalScore(code, SignalLanguages[i]))
         ELSE PickBest(code, i + 1, best_lang, best_score)

Min(a, b) == IF a < b THEN a ELSE b

Max(a, b) == IF a > b THEN a ELSE b

\* confidence in hundredths
detect_language(code) ==
    LET best == PickBest(code, 1, "generic", 0)
    IN  IF best[2] = 0 THEN [language |-> "generic", confidence |-> 0]
        ELSE [language |-> best[1],
              confidence |-> Min(100, (best[2] * 100) \div Cardinality(Signals(best[1])))]

(***************************************************************************)
(* services/security.py                                                    *)
(***************************************************************************)
SuspiciousPatterns ==
    <<"eval(", "exec(", "os.system(", "subprocess.call(", "password", "secret", "api_key">>

\* the patterns that yield a finding, in the order of the list
security_findings(code) ==
    SelectSeq(SuspiciousPatterns, LAMBDA pat : Contains(Lower(code), pat))

(***************************************************************************)
(* services/analysis_engine.py: the helpers that call the AI client, each  *)
(* given the reply the client returned.                                    *)
(***************************************************************************)
AliasMap ==
    [token \in {"python", "py", "javascript", "js", "typescript", "ts", "java",
                "c++", "cpp", "c"} |->
        CASE token \in {"python", "py"} -> "python"
          [] token \in {"javascript", "js"} -> "javascript"
          [] token \in {"typescript", "ts"} -> "typescript"
          [] token = "java" -> "java"
          [] token \in {"c++", "cpp"} -> "cpp"
          [] token = "c" -> "c"]

\* detect_language_via_ai looking the reply up without lower-casing it
detect_language_via_ai_case_sensitive(fallback_language, fallback_confidence, reply) ==
    LET lowered == Strip(Lower(reply))
    IN  IF HasStubMarker(lowered) \/ lowered = <<>>
        THEN <<IF fallback_language # "" THEN fallback_language ELSE "generic",
               fallback_confidence>>
        ELSE IF Strip(reply)[1] \notin DOMAIN AliasMap THEN <<"generic", 0>>
        ELSE <<AliasMap[Strip(reply)[1]], 90>>

\* <<language, confidence>>; a reply holds one lexeme per word, so that
\* lowered.split()[0] is the first lexeme of the stripped reply
detect_language_via_ai(fallback_language, fallback_confidence, reply) ==
    LET lowered == Strip(Lower(reply))
    IN  IF HasStubMarker(lowered) \/ lowered = <<>>
        THEN <<IF fallback_language # "" THEN fallback_language ELSE "generic",
               fallback_confidence>>
        ELSE IF lowered[1] \notin DOMAIN AliasMap THEN <<"generic", 0>>
        ELSE <<AliasMap[lowered[1]], 90>>

\* attempt_auto_correction without the fallback to the submitted code
attempt_auto_correction_no_fallback(code, reply) == Strip(reply)

\* attempt_auto_correction taking the stub text for corrected code
attempt_auto_correction_adopts_stub(code, reply) ==
    IF Strip(reply) = <<>> THEN code ELSE Strip(reply)

attempt_auto_correction(code, reply) ==
    IF HasStubMarker(Lower(reply)) \/ Strip(reply) = <<>> THEN code
    ELSE Strip(reply)

\* the longest explanation that is returned whole
ExplanationCap == 300

\* `x or default`
OrElse(x, default) == IF x \in {None, ""} THEN default ELSE x

\* None, or the dict the refiner returns; `reply` is the mapping
\* client.openai_json returned and explanation is the length of its text
refine_python_complexity(preliminary, reply) ==
    IF reply.stubbed \/ reply.parse_error THEN NoneDict
    ELSE [algorithm |-> OrElse(reply.algorithm, "Unknown"),
          time_complexity |-> OrElse(reply.time_complexity, preliminary.time_complexity),
          space_complexity |-> OrElse(reply.space_complexity, preliminary.space_complexity),
          recommendation |-> OrElse(reply.recommendation, ""),
          explanation |-> Min(reply.explanation, ExplanationCap)]

(***************************************************************************)
(* services/analysis_engine.py: the local heuristics.                      *)
(***************************************************************************)
\* text.splitlines()
RECURSIVE SplitFrom(_, _, _)
SplitFrom(text, i, line) ==
    IF i > Len(text) THEN (IF line = <<>> THEN <<>> ELSE <<line>>)
    ELSE IF text[i] = "\n" THEN <<line>> \o SplitFrom(text, i + 1, <<>>)
    ELSE SplitFrom(text, i + 1, Append(line, text[i]))

SplitLines(text) == SplitFrom(text, 1, <<>>)

\* what the visitors of the syntax tree collect.  No lexeme of the model
\* denotes a loop, a function definition or a comprehension that parses, so
\* a text that parses has none of them.
ast_summary(code) ==
    [has_log_loop |-> FALSE, max_self_calls |-> 0, max_loop_depth |-> 0,
     has_linear_allocation |-> FALSE]

\* the decision chain with the loop depth tested before the recursion
big_o_of_summary_loops_first(s) ==
    IF s.has_log_loop THEN "O(log n)"
    ELSE IF s.max_loop_depth >= 2 THEN "O(n^2)"
    ELSE IF s.max_loop_depth = 1 THEN "O(n)"
    ELSE IF s.max_self_calls >= 2 THEN "O(2^n)"
    ELSE IF s.max_self_calls = 1 THEN "O(n)"
    ELSE "O(1)"

big_o_of_summary(s) ==
    IF s.has_log_loop THEN "O(log n)"
    ELSE IF s.max_self_calls >= 2 THEN "O(2^n)"
    ELSE IF s.max_self_calls = 1 THEN "O(n)"
    ELSE IF s.max_loop_depth >= 2 THEN "O(n^2)"
    ELSE IF s.max_loop_depth = 1 THEN "O(n)"
    ELSE "O(1)"

RangeVars == {"low", "high", "start", "end", "left", "right"}

BisectLoops ==
    {"while (low <=", "while (low >=", "while(low <=", "while(low >=",
     "while (start <=", "while(start <=", "while (begin <=", "while(begin <=",
     "while (left <=", "while(left <=", "while (left < right", "while(left < right",
     "while left <=", "while left >=", "while start <=", "while begin <="}

\* stripped.startswith(prefixes)
StartsWith(stripped, prefixes) == stripped # <<>> /\ stripped[1] \in prefixes

\* <<max_depth, current_depth>> after the lines from i on
RECURSIVE LoopDepth(_, _, _, _)
LoopDepth(lines, i, max_depth, current_depth) ==
    IF i > Len(lines) THEN max_depth
    ELSE LET stripped == Strip(lines[i])
             opened == IF StartsWith(stripped, {"for ", "while "})
                       THEN current_depth + 1 ELSE current_depth
             closes == /\ stripped # <<>>
                       /\ stripped[Len(stripped)] = ":"
                       /\ ~StartsWith(stripped, {"for ", "while ", "if ", "elif "})
         IN  LoopDepth(lines, i + 1, Max(max_depth, opened),
                       IF closes THEN Max(opened - 1, 0) ELSE opened)

IsPythonFamily(language) == NormaliseTag(language) \in {"python", "py"}

estimate_big_o(code, language) ==
    IF IsPythonFamily(language)
    THEN IF ast_parse_error(code) # "" THEN "O(1)"
         ELSE big_o_of_summary(ast_summary(code))
    ELSE LET lowered == Lower(code)
             has_range_vars == \E tok \in RangeVars : Contains(lowered, tok)
             has_bisect_loop == \E cond \in BisectLoops : Contains(lowered, cond)
             has_mid_calc == /\ Contains(lowered, "mid")
                             /\ (Contains(lowered, "/ 2") \/ Contains(lowered, ">> 1"))
             max_depth == LoopDepth(SplitLines(code), 1, 0, 0)
         IN  IF has_range_vars /\ has_bisect_loop /\ has_mid_calc THEN "O(log n)"
             ELSE IF max_depth >= 2 THEN "O(n^2)"
             ELSE IF max_depth = 1 THEN "O(n)"
             ELSE "O(1)"

estimate_space_complexity(code, language) ==
    IF ~IsPythonFamily(language) THEN "O(1)"
    ELSE IF ast_parse_error(code) # "" THEN "O(1)"
    ELSE IF ast_summary(code).max_self_calls >= 1 THEN "O(n)"
    ELSE IF ast_summary(code).has_linear_allocation THEN "O(n)"
    ELSE "O(1)"

CyclomaticKeywords ==
    <<"if ", "elif ", "for ", "while ", "case ", " except ", " and ", " or ">>

RECURSIVE SumCounts(_, _)
SumCounts(text, i) ==
    IF i > Len(CyclomaticKeywords) THEN 0
    ELSE Count(text, CyclomaticKeywords[i]) + SumCounts(text, i + 1)

estimate_cyclomatic_complexity(code) == 1 + SumCounts(Lower(code), 1)

\* in tenths: 100.0 - 1.5 * cyclomatic - 0.1 * line_count, kept in [0, 100]
estimate_maintainability(cyclomatic, code) ==
    Max(0, Min(1000, 1000 - 15 * cyclomatic - Max(LineCount(code), 1)))

\* sorted(kinds) on the patterns of the scanner
SortedPatterns ==
    <<"api_key", "eval(", "exec(", "os.system(", "password", "secret", "subprocess.call(">>

\* the summary sentence: its opening and the patterns it names
summarise_security(findings) ==
    IF findings = <<>>
    THEN <<"No obvious security issues detected by simple rules.">>
    ELSE <<"Potential security concerns:">>
           \o SelectSeq(SortedPatterns,
                        LAMBDA pat : \E i \in 1..Len(findings) : findings[i] = pat)

\* `"n^2" in big_o`, on the labels of the model
HasNSquared(big_o) == big_o \in {"O(n^2)", "O(n^2 log n)"}

\* RiskScore counting a cyclomatic complexity of 16 only
RiskScore_band(big_o, cyclomatic_complexity, findings, maintainability) ==
    (IF HasNSquared(big_o) THEN 2 ELSE 0)
      + (IF cyclomatic_complexity > 15 /\ cyclomatic_complexity <= 16 THEN 2 ELSE 0)
      + (IF findings # <<>> THEN 3 ELSE 0)
      + (IF maintainability < 500 THEN 2 ELSE 0)

RiskScore(big_o, cyclomatic_complexity, findings, maintainability) ==
    (IF HasNSquared(big_o) THEN 2 ELSE 0)
      + (IF cyclomatic_complexity > 15 THEN 2 ELSE 0)
      + (IF findings # <<>> THEN 3 ELSE 0)
      + (IF maintainability < 500 THEN 2 ELSE 0)

\* RiskLevel with the upper ends of the ranges left out
RiskLevel_exclusive(score) ==
    IF score < 2 THEN "Low"
    ELSE IF score < 4 THEN "Medium"
    ELSE IF score < 6 THEN "High"
    ELSE "Critical"

RiskLevel(score) ==
    IF score <= 2 THEN "Low"
    ELSE IF score <= 4 THEN "Medium"
    ELSE IF score <= 6 THEN "High"
    ELSE "Critical"

\* <<score, level>>
compute_risk(big_o, cyclomatic_complexity, findings, maintainability) ==
    <<RiskScore(big_o, cyclomatic_complexity, findings, maintainability),
      RiskLevel(RiskScore(big_o, cyclomatic_complexity, findings, maintainability))>>

estimate_complexity_trend(cyclomatic) ==
    IF cyclomatic >= 15 THEN "increasing"
    ELSE IF cyclomatic >= 8 THEN "slightly_increasing"
    ELSE "stable"

syntax_error_response(language_detected, detection_confidence, was_corrected, original_valid, corrected_code, message) ==
    [big_o |-> "N/A", cyclomatic_complexity |-> 0, maintainability |-> 0,
     security_summary |-> <<>>, ai_summary |-> <<>>, risk_score |-> 0,
     risk_level |-> "Unknown", complexity_trend |-> "unknown",
     language_detected |-> language_detected,
     detection_confidence |-> detection_confidence,
     was_corrected |-> was_corrected, original_valid |-> original_valid,
     corrected_code |-> corrected_code, error |-> "SyntaxError",
     message |-> message]

(***************************************************************************)
(* services/analysis_engine.py: analyze_code.  `call` is the frame of one  *)
(* call: its parameters and locals, the position pc at which it stands     *)
(* (the awaits on the AI client are its suspension points), and, for the   *)
(* properties, what has run so far: the number of validations, the number  *)
(* of correction requests and of language requests sent to the client with *)
(* the reply each got, and the set of pipeline stages executed.            *)
(***************************************************************************)
NewCall(code, language) ==
    [pc |-> "start", code |-> code, language |-> language,
     override_language |-> None, detected_language |-> None,
     detection_confidence |-> 0, effective_language |-> None,
     validation |-> NoneDict, original_valid |-> FALSE, final_code |-> NoneText,
     was_corrected |-> FALSE, corrected_code |-> NoneText, revalidation |-> NoneDict,
     findings |-> <<>>, big_o |-> None, space_o |-> None, cyclomatic |-> 0,
     maintainability |-> 0, security_summary |-> NoneText, ai_summary |-> NoneText,
     refined |-> NoneDict, result |-> NoneDict,
     validations |-> 0, corrections |-> 0, language_requests |-> 0,
     language_answer |-> NoneText, correction_answer |-> NoneText,
     refinement_answer |-> NoneDict, ran |-> {}]

\* the effective language before the escalation: the override or the
\* detected language, and "c" for Python code with an inclusion directive
SelfHeal(effective_language, code) ==
    IF effective_language = "python" /\ Contains(code, "#include") THEN "c"
    ELSE effective_language

\* NeedsEscalation looking at the confidence only
NeedsEscalation_ignores_override(override_language, detection_confidence) ==
    detection_confidence < 50

\* `not override_language and detection_confidence < 0.5`
NeedsEscalation(override_language, detection_confidence) ==
    override_language = "" /\ detection_confidence < 50

\* lines 26-40, up to the await of the language request
analyze_begin(f) ==
    LET override_language == NormaliseTag(f.language)
        detection_result == detect_language(f.code)
        effective_language == IF override_language # "" THEN override_language
                              ELSE detection_result.language
    IN  [f EXCEPT !.override_language = override_language,
                  !.detected_language = detection_result.language,
                  !.detection_confidence = detection_result.confidence,
                  !.effective_language = SelfHeal(effective_language, f.code),
                  !.pc = IF NeedsEscalation(override_language, detection_result.confidence)
                         THEN "await_language" ELSE "validate"]

\* lines 41-43, on the reply to the language request
language_reply(f, reply) ==
    LET ai == detect_language_via_ai(f.detected_language, f.detection_confidence, reply)
    IN  [f EXCEPT !.effective_language = ai[1],
                  !.detection_confidence = ai[2],
                  !.language_requests = @ + 1,
                  !.language_answer = reply,
                  !.pc = "validate"]

\* lines 46-53, up to the await of the correction request
initial_validation(f) ==
    LET validation == validate_code(f.effective_language, f.code)
    IN  [f EXCEPT !.validation = validation,
                  !.original_valid = validation.valid,
                  !.final_code = f.code,
                  !.was_corrected = FALSE,
                  !.validations = @ + 1,
                  !.pc = IF validation.valid THEN "analyze" ELSE "await_correction"]

\* the message of the SyntaxError result
ErrorMessage(validation, revalidation) ==
    OrElse(validation.error, "Code is invalid even after correction.")

\* correction_reply going on to the analysis whatever the re-validation says
correction_reply_adopts_invalid(f, reply) ==
    LET corrected_code == attempt_auto_correction(f.code, reply)
    IN  [f EXCEPT !.corrected_code = corrected_code,
                  !.revalidation = validate_code(f.effective_language, corrected_code),
                  !.corrections = @ + 1,
                  !.correction_answer = reply,
                  !.validations = @ + 1,
                  !.final_code = corrected_code,
                  !.was_corrected = TRUE,
                  !.pc = "analyze"]

\* correction_reply asking for another correction while the code is invalid
correction_reply_retries(f, reply) ==
    LET corrected_code == attempt_auto_correction(f.code, reply)
        revalidation == validate_code(f.effective_language, corrected_code)
    IN  [f EXCEPT !.corrected_code = corrected_code,
                  !.revalidation = revalidation,
                  !.corrections = @ + 1,
                  !.correction_answer = reply,
                  !.validations = @ + 1,
                  !.final_code = IF revalidation.valid THEN corrected_code ELSE @,
                  !.was_corrected = revalidation.valid,
                  !.pc = IF revalidation.valid THEN "analyze" ELSE "await_correction"]

\* lines 54-69, on the reply to the correction request
correction_reply(f, reply) ==
    LET corrected_code == attempt_auto_correction(f.code, reply)
        revalidation == validate_code(f.effective_language, corrected_code)
        g == [f EXCEPT !.corrected_code = corrected_code,
                       !.revalidation = revalidation,
                       !.corrections = @ + 1,
                       !.correction_answer = reply,
                       !.validations = @ + 1]
    IN  IF revalidation.valid
        THEN [g EXCEPT !.final_code = corrected_code,
                       !.was_corrected = TRUE,
                       !.pc = "analyze"]
        ELSE [g EXCEPT !.result = syntax_error_response(f.effective_language,
                                      f.detection_confidence, FALSE, FALSE, NoneText,
                                      ErrorMessage(f.validation, revalidation)),
                       !.pc = "done"]

\* local_analysis measuring the submitted code instead of the final code
local_analysis_of_submission(f) ==
    LET cyclomatic == estimate_cyclomatic_complexity(f.code)
    IN  [f EXCEPT !.findings = security_findings(f.code),
                  !.big_o = estimate_big_o(f.code, f.effective_language),
                  !.space_o = estimate_space_complexity(f.code, f.effective_language),
                  !.cyclomatic = cyclomatic,
                  !.maintainability = estimate_maintainability(cyclomatic, f.code),
                  !.security_summary = summarise_security(security_findings(f.code)),
                  !.ran = @ \cup {"complexity_estimator", "structural_scorer",
                                  "security_scanner"},
                  !.pc = "await_summary"]

\* lines 72-81, up to the await of the summary request
local_analysis(f) ==
    LET cyclomatic == estimate_cyclomatic_complexity(f.final_code)
    IN  [f EXCEPT !.findings = security_findings(f.final_code),
                  !.big_o = estimate_big_o(f.final_code, f.effective_language),
                  !.space_o = estimate_space_complexity(f.final_code, f.effective_language),
                  !.cyclomatic = cyclomatic,
                  !.maintainability = estimate_maintainability(cyclomatic, f.final_code),
                  !.security_summary = summarise_security(security_findings(f.final_code)),
                  !.ran = @ \cup {"complexity_estimator", "structural_scorer",
                                  "security_scanner"},
                  !.pc = "await_summary"]

\* finish scoring the risk of the local estimate, whatever the refiner said
finish_scores_local_estimate(f, refined) ==
    LET big_o == IF refined # NoneDict THEN OrElse(refined.time_complexity, f.big_o)
                 ELSE f.big_o
        risk == compute_risk(f.big_o, f.cyclomatic, f.findings, f.maintainability)
    IN  [f EXCEPT
           !.refined = refined,
           !.big_o = big_o,
           !.ran = @ \cup {"risk_aggregator"},
           !.pc = "done",
           !.result =
              [big_o |-> big_o,
               cyclomatic_complexity |-> f.cyclomatic,
               maintainability |-> f.maintainability,
               security_summary |-> f.security_summary,
               ai_summary |-> f.ai_summary,
               risk_score |-> risk[1],
               risk_level |-> risk[2],
               complexity_trend |-> estimate_complexity_trend(f.cyclomatic),
               language_detected |-> f.effective_language,
               detection_confidence |-> f.detection_confidence,
               was_corrected |-> f.was_corrected,
               original_valid |-> f.original_valid,
               corrected_code |-> IF f.was_corrected THEN f.final_code ELSE NoneText,
               algorithm |-> IF refined # NoneDict THEN refined.algorithm ELSE None,
               time_complexity |-> IF refined # NoneDict THEN refined.time_complexity ELSE big_o,
               space_complexity |-> IF refined # NoneDict THEN refined.space_complexity
                                    ELSE f.space_o,
               recommendation |-> IF refined # NoneDict THEN refined.recommendation ELSE None,
               explanation |-> IF refined # NoneDict THEN refined.explanation ELSE None,
               error |-> None,
               message |-> None]]

\* lines 93-124, with `refined` what the refiner returned or None
finish(f, refined) ==
    LET big_o == IF refined # NoneDict THEN OrElse(refined.time_complexity, f.big_o)
                 ELSE f.big_o
        risk == compute_risk(big_o, f.cyclomatic, f.findings, f.maintainability)
    IN  [f EXCEPT
           !.refined = refined,
           !.big_o = big_o,
           !.ran = @ \cup {"risk_aggregator"},
           !.pc = "done",
           !.result =
              [big_o |-> big_o,
               cyclomatic_complexity |-> f.cyclomatic,
               maintainability |-> f.maintainability,
               security_summary |-> f.security_summary,
               ai_summary |-> f.ai_summary,
               risk_score |-> risk[1],
               risk_level |-> risk[2],
               complexity_trend |-> estimate_complexity_trend(f.cyclomatic),
               language_detected |-> f.effective_language,
               detection_confidence |-> f.detection_confidence,
               was_corrected |-> f.was_corrected,
               original_valid |-> f.original_valid,
               corrected_code |-> IF f.was_corrected THEN f.final_code ELSE NoneText,
               algorithm |-> IF refined # NoneDict THEN refined.algorithm ELSE None,
               time_complexity |-> IF refined # NoneDict THEN refined.time_complexity ELSE big_o,
               space_complexity |-> IF refined # NoneDict THEN refined.space_complexity
                                    ELSE f.space_o,
               recommendation |-> IF refined # NoneDict THEN refined.recommendation ELSE None,
               explanation |-> IF refined # NoneDict THEN refined.explanation ELSE None,
               error |-> None,
               message |-> None]]

\* summary_reply asking the refiner whatever the language
summary_reply_refines_all(f, reply) ==
    [f EXCEPT !.ai_summary = reply, !.ran = @ \cup {"ai_summary"},
              !.pc = "await_refinement"]

\* lines 82-85, on the reply to the summary request: the refiner is asked
\* for the Python family only, and the other languages go on to the result
summary_reply(f, reply) ==
    LET g == [f EXCEPT !.ai_summary = reply, !.ran = @ \cup {"ai_summary"}]
    IN  IF f.effective_language \in {"python", "py"}
        THEN [g EXCEPT !.pc = "await_refinement"]
        ELSE finish(g, NoneDict)

\* lines 86-94, on the reply to the refinement request
refinement_reply(f, reply) ==
    finish([f EXCEPT !.ran = @ \cup {"semantic_refiner"}, !.refinement_answer = reply],
           refine_python_complexity([time_complexity |-> f.big_o,
                                     space_complexity |-> f.space_o], reply))

(***************************************************************************)
(* services/compare.py: compare_codes.                                     *)
(***************************************************************************)
\* substring tests of _big_o_rank on the lower-cased labels of the model
LabelHasNSquared(big_o) == big_o \in {"O(n^2)", "O(n^2 log n)"}

LabelHasNParen(big_o) ==
    big_o \in {"O(n)", "O(log n)", "O(2^n)", "O(n log n)", "O(n^2 log n)"}

LabelHasOParenN(big_o) ==
    big_o \in {"O(n)", "O(n^2)", "O(n log n)", "O(n^2 log n)"}

LabelHasOne(big_o) == big_o \in {"O(1)"}

big_o_rank(big_o) ==
    IF LabelHasNSquared(big_o) THEN 3
    ELSE IF LabelHasNParen(big_o) \/ LabelHasOParenN(big_o) THEN 2
    ELSE IF LabelHasOne(big_o) THEN 1
    ELSE 4

\* pick_better without the cyclomatic tie-break
pick_better_skips_cyclomatic(a_risk, b_risk, a_cyclomatic, b_cyclomatic, a_big_o_rank, b_big_o_rank) ==
    IF a_risk # b_risk THEN (IF a_risk < b_risk THEN "A" ELSE "B")
    ELSE IF a_big_o_rank # b_big_o_rank
         THEN (IF a_big_o_rank < b_big_o_rank THEN "A" ELSE "B")
    ELSE "A"

\* pick_better deciding on the risk score alone, A on equal scores
pick_better_risk_only(a_risk, b_risk, a_cyclomatic, b_cyclomatic, a_big_o_rank, b_big_o_rank) ==
    IF a_risk <= b_risk THEN "A" ELSE "B"

pick_better(a_risk, b_risk, a_cyclomatic, b_cyclomatic, a_big_o_rank, b_big_o_rank) ==
    IF a_risk # b_risk THEN (IF a_risk < b_risk THEN "A" ELSE "B")
    ELSE IF a_cyclomatic # b_cyclomatic
         THEN (IF a_cyclomatic < b_cyclomatic THEN "A" ELSE "B")
    ELSE IF a_big_o_rank # b_big_o_rank
         THEN (IF a_big_o_rank < b_big_o_rank THEN "A" ELSE "B")
    ELSE "A"

\* the note of one metric: the values it reports, without the wording
notes_for_metric(name, a_val, b_val, better) ==
    IF a_val = b_val THEN <<[name |-> name, change |-> "no change", a |-> a_val]>>
    ELSE <<[name |-> name, change |-> "changed", a |-> a_val, b |-> b_val,
            better |-> better]>>

notes_for_delta(name, a_val, b_val, better) ==
    IF a_val = b_val THEN <<[name |-> name, change |-> "no change", a |-> a_val]>>
    ELSE <<[name |-> name, change |-> "changed", a |-> a_val, b |-> b_val,
            direction |-> IF b_val < a_val THEN "decreased" ELSE "increased",
            desirability |-> IF b_val < a_val THEN "good" ELSE "worse",
            better |-> better]>>

\* the keys of an analysis result that compare_codes reads
CompareView(r) ==
    [error |-> r.error, big_o |-> r.big_o,
     cyclomatic_complexity |-> r.cyclomatic_complexity,
     maintainability |-> r.maintainability,
     risk_score |-> r.risk_score, risk_level |-> r.risk_level]

\* the test that opens the early return of compare_codes
IsCompilationError(r) == r.error = "CompilationError"

\* lines 45-120: what compare_codes returns for the two analysis results
compare_verdict(a, b) ==
    IF IsCompilationError(a) \/ IsCompilationError(b)
    THEN [error |-> "CompilationError",
          message |-> (IF IsCompilationError(a) THEN <<"A">> ELSE <<>>)
                        \o (IF IsCompilationError(b) THEN <<"B">> ELSE <<>>)]
    ELSE LET better_version ==
                 pick_better(a.risk_score, b.risk_score,
                             a.cyclomatic_complexity, b.cyclomatic_complexity,
                             big_o_rank(a.big_o), big_o_rank(b.big_o))
         IN  [better_version |-> better_version,
              improvement_notes |->
                  notes_for_metric("Big-O", a.big_o, b.big_o, better_version)
                    \o notes_for_delta("Cyclomatic complexity", a.cyclomatic_complexity,
                                       b.cyclomatic_complexity, better_version)
                    \o notes_for_delta("Risk score", a.risk_score, b.risk_score,
                                       better_version),
              metrics_comparison |->
                  [A |-> [big_o |-> a.big_o,
                          cyclomatic_complexity |-> a.cyclomatic_complexity,
                          maintainability |-> a.maintainability,
                          risk_score |-> a.risk_score,
                          risk_level |-> a.risk_level],
                   B |-> [big_o |-> b.big_o,
                          cyclomatic_complexity |-> b.cyclomatic_complexity,
                          maintainability |-> b.maintainability,
                          risk_score |-> b.risk_score,
                          risk_level |-> b.risk_level],
                   delta |-> [cyclomatic_complexity |->
                                  b.cyclomatic_complexity - a.cyclomatic_complexity,
                              risk_score |-> b.risk_score - a.risk_score]]]

(***************************************************************************)
(* What is submitted and what the AI client may reply.                     *)
(***************************************************************************)
CodeAlphabet == {" ", "\n", "(", ")", "'", "#include", "self"}

Codes == SeqsUpTo(CodeAlphabet, MaxLen)

\* code with two of the four signals of C++, which the detector resolves
\* with a confidence of 0.5
ConfidentCodes == {<<"#include", "std::">>}

LanguageInputs == {None, "python", " PY", "c", "generic", "ruby"}

\* replies to the language request: none, the stub, names with and without
\* an alias, and a name followed by the stub marker
LanguageReplies ==
    {<<>>, <<StubText>>, <<" ", "Python">>, <<"C++", " ", "probably">>, <<"rust">>,
     <<"c">>, <<"Python", " ", StubText>>}

\* replies to the correction request: the stub, the submitted text
\* unchanged, and every short text
CorrectionReplies(code) ==
    {<<StubText>>, code} \cup SeqsUpTo(CodeAlphabet, MaxReplyLen)

SummaryReplies == {<<StubText>>, <<"summary">>}

\* replies to the refinement request: the stubbed and the unparsable
\* mapping, both carrying the schema hint, and parsed mappings
RefinementReplies(preliminary) ==
    LET hint == [stubbed |-> FALSE, parse_error |-> FALSE, algorithm |-> "Unknown",
                 time_complexity |-> preliminary.time_complexity,
                 space_complexity |-> preliminary.space_complexity,
                 recommendation |-> "", explanation |-> 0]
    IN  {[hint EXCEPT !.stubbed = TRUE], [hint EXCEPT !.parse_error = TRUE],
         [hint EXCEPT !.algorithm = "Binary Search", !.time_complexity = "O(log n)",
                      !.recommendation = "iterate", !.explanation = 120],
         [hint EXCEPT !.algorithm = "Bubble Sort", !.time_complexity = "O(n^2)",
                      !.explanation = 301],
         [hint EXCEPT !.algorithm = None, !.time_complexity = None,
                      !.space_complexity = "O(n)", !.recommendation = None],
         [hint EXCEPT !.algorithm = "Scan", !.time_complexity = "O(n)"]}

Preliminary(f) == [time_complexity |-> f.big_o, space_complexity |-> f.space_o]

\* the results analyze_code(code, language) can return, over every reply
\* of the AI client; the record of the replies received is not part
\* of a result and is dropped, so that equal frames are run once
AnalyzeResults(code, language) ==
    LET f0 == analyze_begin(NewCall(code, language))
        F1 == IF f0.pc = "await_language"
              THEN {[language_reply(f0, r) EXCEPT !.language_answer = NoneText] :
                       r \in LanguageReplies}
              ELSE {f0}
        F2 == {initial_validation(f) : f \in F1}
        F3 == UNION {IF f.pc = "await_correction"
                     THEN {[correction_reply(f, r) EXCEPT !.correction_answer = NoneText] :
                             r \in CorrectionReplies(f.code)}
                     ELSE {f} : f \in F2}
        F4 == {IF f.pc = "analyze" THEN local_analysis(f) ELSE f : f \in F3}
        F5 == UNION {IF f.pc = "await_summary"
                     THEN {summary_reply(f, r) : r \in SummaryReplies}
                     ELSE {f} : f \in F4}
        F6 == UNION {IF f.pc = "await_refinement"
                     THEN {refinement_reply(f, r) : r \in RefinementReplies(Preliminary(f))}
                     ELSE {f} : f \in F5}
    IN  {f.result : f \in F6}

\* StubAIClient.openai_json: the schema hint marked as stubbed
StubMapping(preliminary) ==
    [stubbed |-> TRUE, parse_error |-> FALSE, algorithm |-> "Unknown",
     time_complexity |-> preliminary.time_complexity,
     space_complexity |-> preliminary.space_complexity,
     recommendation |-> "", explanation |-> 0]

\* the frame in which analyze_code(code, language) ends when get_ai_client
\* returns the StubAIClient
StubRun(code, language) ==
    LET f0 == analyze_begin(NewCall(code, language))
        f1 == IF f0.pc = "await_language" THEN language_reply(f0, <<StubText>>) ELSE f0
        f2 == initial_validation(f1)
        f3 == IF f2.pc = "await_correction" THEN correction_reply(f2, <<StubText>>) ELSE f2
        f4 == IF f3.pc = "analyze" THEN local_analysis(f3) ELSE f3
        f5 == IF f4.pc = "await_summary" THEN summary_reply(f4, <<StubText>>) ELSE f4
    IN  IF f5.pc = "await_refinement"
        THEN refinement_reply(f5, StubMapping(Preliminary(f5))) ELSE f5

(***************************************************************************)
(* The state machines.  Spec runs one call of analyze_code on any code and *)
(* language, one step per stretch between two awaits; SpecCompare runs one *)
(* call of compare_codes, one step per awaited analysis.                   *)
(***************************************************************************)
IdleCall == [NewCall(<<>>, None) EXCEPT !.pc = "idle"]

CmpAlphabet == {"(", "self", "if ", "for ", "#include"}

CmpCodes == SeqsUpTo(CmpAlphabet, MaxCmpLen)

CmpLanguageInputs == {None, "python", "c"}

NewCompare(code_a, code_b, language) ==
    [pc |-> "start", code_a |-> code_a, code_b |-> code_b, language |-> language,
     a |-> NoneDict, b |-> NoneDict, result |-> NoneDict]

IdleCompare == [NewCompare(<<>>, <<>>, None) EXCEPT !.pc = "idle"]

\* no concurrent calls, and no call of _compute_risk on its own
IdleCalls == <<>>

\* no call of a pure helper under way
IdleFn == [pc |-> "idle"]

IdleRisk ==
    [pc |-> "idle", big_o |-> None, cyclomatic_complexity |-> 0,
     security_issues |-> <<>>, maintainability |-> 0, score |-> 0, level |-> None]

Init ==
    /\ call \in {NewCall(code, language) :
                    code \in Codes \cup ConfidentCodes, language \in LanguageInputs}
    /\ cmp = IdleCompare
    /\ calls = IdleCalls
    /\ risk_call = IdleRisk
    /\ fn_call = IdleFn

AnalyzeBegin ==
    /\ call.pc = "start"
    /\ call' = analyze_begin(call)
    /\ UNCHANGED <<cmp, calls, risk_call, fn_call>>

LanguageReply ==
    /\ call.pc = "await_language"
    /\ \E reply \in LanguageReplies : call' = language_reply(call, reply)
    /\ UNCHANGED <<cmp, calls, risk_call, fn_call>>

InitialValidation ==
    /\ call.pc = "validate"
    /\ call' = initial_validation(call)
    /\ UNCHANGED <<cmp, calls, risk_call, fn_call>>

CorrectionReply ==
    /\ call.pc = "await_correction"
    /\ \E reply \in CorrectionReplies(call.code) : call' = correction_reply(call, reply)
    /\ UNCHANGED <<cmp, calls, risk_call, fn_call>>

LocalAnalysis ==
    /\ call.pc = "analyze"
    /\ call' = local_analysis(call)
    /\ UNCHANGED <<cmp, calls, risk_call, fn_call>>

SummaryReply ==
    /\ call.pc = "await_summary"
    /\ \E reply \in SummaryReplies : call' = summary_reply(call, reply)
    /\ UNCHANGED <<cmp, calls, risk_call, fn_call>>

RefinementReply ==
    /\ call.pc = "await_refinement"
    /\ \E reply \in RefinementReplies(Preliminary(call)) :
          call' = refinement_reply(call, reply)
    /\ UNCHANGED <<cmp, calls, risk_call, fn_call>>

Next ==
    \/ AnalyzeBegin
    \/ LanguageReply
    \/ InitialValidation
    \/ CorrectionReply
    \/ LocalAnalysis
    \/ SummaryReply
    \/ RefinementReply

Spec == Init /\ [][Next]_vars

\* One call whose AI client may never answer.  The steps between two awaits
\* are the call's own and are taken; a reply is the client's step, awaited
\* through run_in_executor with no timeout, so nothing obliges it to come.
SpecUnresponsive ==
    /\ Init
    /\ [][Next]_vars
    /\ WF_vars(AnalyzeBegin)
    /\ WF_vars(InitialValidation)
    /\ WF_vars(LocalAnalysis)

\* One call of _compute_risk on any label, cyclomatic complexity, list of
\* findings and maintainability.
MaxCyclomatic == 17

RiskLabels == {"O(1)", "O(n)", "O(n^2)", "O(n^2 log n)", "O(log n)"}

RiskFindings == {<<>>, <<"eval(">>, <<"eval(", "password">>}

RiskMaintainabilities == {0, 499, 500, 501, 1000}

InitRisk ==
    /\ call = IdleCall
    /\ cmp = IdleCompare
    /\ calls = IdleCalls
    /\ fn_call = IdleFn
    /\ risk_call \in {[IdleRisk EXCEPT !.pc = "start", !.big_o = big_o,
                                      !.cyclomatic_complexity = cyclomatic_complexity,
                                      !.security_issues = security_issues,
                                      !.maintainability = maintainability] :
                         big_o \in RiskLabels,
                         cyclomatic_complexity \in 0..MaxCyclomatic,
                         security_issues \in RiskFindings,
                         maintainability \in RiskMaintainabilities}

ComputeRisk ==
    /\ risk_call.pc = "start"
    /\ LET r == compute_risk(risk_call.big_o, risk_call.cyclomatic_complexity,
                             risk_call.security_issues, risk_call.maintainability)
       IN  risk_call' = [risk_call EXCEPT !.score = r[1], !.level = r[2], !.pc = "done"]
    /\ UNCHANGED <<call, cmp, calls, fn_call>>

NextRisk == ComputeRisk

SpecRisk == InitRisk /\ [][NextRisk]_vars

\* Several calls of analyze_code in flight on one event loop.  Each call has
\* its own frame; what the calls share is the configuration of the Gemini
\* SDK, which every construction of a client writes (genai.configure).  A
\* call runs from one await to the next without interruption and the calls
\* interleave at the awaits.
NumCalls == 2

CallIds == 1..NumCalls

ConcurrentInputs == {<<"self">>, <<"(">>} \X {None, "c"}

ConcurrentLanguageReplies == {<<StubText>>, <<"c">>}

ConcurrentCorrectionReplies == {<<StubText>>, <<"self">>}

ConcurrentRefinementReplies(preliminary) ==
    {StubMapping(preliminary),
     [StubMapping(preliminary) EXCEPT !.stubbed = FALSE, !.algorithm = "Scan",
                                      !.time_complexity = "O(n^2)"]}

AwaitPositions == {"await_language", "await_correction", "await_summary", "await_refinement"}

\* Store with the resolved language kept in one place for all calls
Store_shared_language(cs, i, g) ==
    [frames |-> [j \in CallIds |->
                    IF j = i THEN g
                    ELSE IF cs.frames[j].pc \in {"validate", "await_correction"}
                         THEN [cs.frames[j] EXCEPT !.effective_language = g.effective_language]
                    ELSE cs.frames[j]],
     sdk_configured |-> (cs.sdk_configured \/ g.pc \in AwaitPositions)]

\* the frame of call i becomes g; a call that reaches an await has built a client
Store(cs, i, g) ==
    [frames |-> [cs.frames EXCEPT ![i] = g],
     sdk_configured |-> (cs.sdk_configured \/ g.pc \in AwaitPositions)]

InitConcurrent ==
    /\ call = IdleCall
    /\ cmp = IdleCompare
    /\ risk_call = IdleRisk
    /\ fn_call = IdleFn
    /\ calls \in {[frames |-> [i \in CallIds |-> NewCall(inputs[i][1], inputs[i][2])],
                    sdk_configured |-> FALSE] :
                      inputs \in [CallIds -> ConcurrentInputs]}

\* a call runs the stretch of code it stands before
CallAdvances ==
    /\ \E i \in CallIds :
          LET f == calls.frames[i]
          IN  /\ f.pc \in {"start", "validate", "analyze"}
              /\ calls' = Store(calls, i,
                                IF f.pc = "start" THEN analyze_begin(f)
                                ELSE IF f.pc = "validate" THEN initial_validation(f)
                                ELSE local_analysis(f))
    /\ UNCHANGED <<call, cmp, risk_call, fn_call>>

\* a call suspended at an await gets the reply and runs to the next await
CallResumes ==
    /\ \E i \in CallIds :
          LET f == calls.frames[i]
          IN  /\ f.pc \in AwaitPositions
              /\ \E g \in (IF f.pc = "await_language"
                             THEN {language_reply(f, r) : r \in ConcurrentLanguageReplies}
                             ELSE IF f.pc = "await_correction"
                             THEN {correction_reply(f, r) : r \in ConcurrentCorrectionReplies}
                             ELSE IF f.pc = "await_summary"
                             THEN {summary_reply(f, r) : r \in SummaryReplies}
                             ELSE {refinement_reply(f, r) :
                                      r \in ConcurrentRefinementReplies(Preliminary(f))}) :
                    calls' = Store(calls, i, g)
    /\ UNCHANGED <<call, cmp, risk_call, fn_call>>

NextConcurrent ==
    \/ CallAdvances
    \/ CallResumes

SpecConcurrent == InitConcurrent /\ [][NextConcurrent]_vars

InitCompare ==
    /\ call = IdleCall
    /\ calls = IdleCalls
    /\ risk_call = IdleRisk
    /\ fn_call = IdleFn
    /\ cmp \in {NewCompare(code_a, code_b, language) :
                   code_a \in CmpCodes, code_b \in CmpCodes,
                   language \in CmpLanguageInputs}

\* line 42: the analysis of version A returns
CompareAnalyzeA ==
    /\ cmp.pc = "start"
    /\ \E a \in {CompareView(r) : r \in AnalyzeResults(cmp.code_a, cmp.language)} :
          cmp' = [cmp EXCEPT !.a = a, !.pc = "await_b"]
    /\ UNCHANGED <<call, calls, risk_call, fn_call>>

\* lines 43-120: the analysis of version B returns and the verdict is built
CompareAnalyzeB ==
    /\ cmp.pc = "await_b"
    /\ \E b \in {CompareView(r) : r \in AnalyzeResults(cmp.code_b, cmp.language)} :
          cmp' = [cmp EXCEPT !.b = b,
                             !.result = compare_verdict(cmp.a, b),
                             !.pc = "done"]
    /\ UNCHANGED <<call, calls, risk_call, fn_call>>

NextCompare ==
    \/ CompareAnalyzeA
    \/ CompareAnalyzeB

SpecCompare == InitCompare /\ [][NextCompare]_vars

(***************************************************************************)
(* Properties of analyze_code (Spec).                                      *)
(***************************************************************************)
\* the validation that decided whether the call went on to the analysis
LastValidation(f) == IF f.revalidation # NoneDict THEN f.revalidation ELSE f.validation

IsSyntaxErrorResult(r) ==
    /\ r.error = "SyntaxError"
    /\ r.big_o = "N/A"
    /\ r.cyclomatic_complexity = 0
    /\ r.maintainability = 0
    /\ r.risk_score = 0

\* C1: code that the re-validation after the correction attempt still
\* judges invalid ends the call with the error result (error kind set,
\* big_o "N/A", zero metrics) and none of the analysis stages has run; and a
\* result with error = None is returned only for code whose last validation
\* was valid.
C1_InvalidCodeGetsErrorResult ==
    /\ (call.revalidation # NoneDict /\ ~call.revalidation.valid) =>
          /\ call.pc = "done"
          /\ IsSyntaxErrorResult(call.result)
          /\ call.ran = {}
    /\ (call.pc = "done" /\ call.result.error = None) => LastValidation(call).valid

C1_Witness ==
    /\ call.pc = "done"
    /\ call.revalidation # NoneDict
    /\ ~call.revalidation.valid
    /\ call.corrected_code # call.code

\* C2: one call sends at most one correction request and validates at most
\* twice, the second time exactly when a correction was attempted; after
\* the re-validation the call is in the analysis or has ended, and never
\* waits for a correction again.
C2_SingleCorrectionAttempt ==
    /\ call.corrections <= 1
    /\ call.validations <= 2
    /\ (call.corrections = 0 => call.validations <= 1)
    /\ (call.corrections = 1 =>
          /\ call.validations = 2
          /\ call.pc \in {"analyze", "await_summary", "await_refinement", "done"}
          /\ (call.pc = "done" /\ ~call.revalidation.valid =>
                call.result.error = "SyntaxError"))

C2_Witness ==
    /\ call.pc = "done"
    /\ call.corrections = 1
    /\ call.validations = 2
    /\ call.result.error = None

\* C3: the message of the SyntaxError result is the error of the second
\* validation, the one run on the corrected candidate.
C3_MessageOfSecondValidation ==
    (call.pc = "done" /\ call.result.error = "SyntaxError") =>
        call.result.message = call.revalidation.error

\* the correction replies C4 is about
IsBlank(text) == \A i \in 1..Len(text) : text[i] \in Whitespace

IsNoOpAnswer(f) ==
    \/ IsBlank(f.correction_answer)
    \/ HasStubMarker(f.correction_answer)
    \/ f.correction_answer = f.code

EndedInSyntaxError(f) ==
    /\ f.pc = "done"
    /\ f.result.error = "SyntaxError"
    /\ ~f.result.was_corrected
    /\ f.result.corrected_code = NoneText

\* C4 as stated: after an empty, stubbed or unchanged correction reply the
\* candidate that is re-validated is the submitted code, and the call
\* returns the SyntaxError result with was_corrected false and no corrected
\* code.
C4_NoOpReplyKeepsOriginal ==
    (call.corrections = 1 /\ IsNoOpAnswer(call)) =>
        /\ call.corrected_code = call.code
        /\ EndedInSyntaxError(call)

\* C4 amended: after an empty or stubbed reply the candidate is the
\* submitted code; after the unchanged submitted text it is that text with
\* the blanks around it trimmed.  The call returns the SyntaxError result
\* (was_corrected false, no corrected code) whenever the candidate is the
\* submitted code or the language is not of the Python family; otherwise
\* it returns that result or adopts the trimmed text with was_corrected
\* true.
C4_NoOpReplyKeepsTrimmedOriginal ==
    (call.corrections = 1 /\ IsNoOpAnswer(call)) =>
        /\ call.corrected_code =
              IF IsBlank(call.correction_answer) \/ HasStubMarker(call.correction_answer)
              THEN call.code ELSE Strip(call.code)
        /\ (call.corrected_code = call.code \/ ~IsPythonFamily(call.effective_language))
              => EndedInSyntaxError(call)
        /\ ~EndedInSyntaxError(call) =>
              /\ call.was_corrected
              /\ call.final_code = Strip(call.code)
              /\ call.pc \in {"analyze", "await_summary", "await_refinement", "done"}
              /\ (call.pc = "done" => call.result.corrected_code = Strip(call.code))

C4_Witness ==
    /\ call.corrections = 1
    /\ call.correction_answer = call.code
    /\ call.corrected_code # call.code
    /\ EndedInSyntaxError(call)

\* C6: when validate_code(lang, code) is valid, analyze_code called with
\* that code and lang as the override never returns a SyntaxError result.
C6_ValidationMonotonicity ==
    (/\ call.pc = "done"
     /\ call.language # None
     /\ validate_code(call.language, call.code).valid)
        => call.result.error # "SyntaxError"

\* C7: code that contains "#include" is never validated, nor analysed, as
\* a language of the Python family.
C7_SelfHealGuard ==
    (call.validations >= 1 /\ Contains(call.code, "#include"))
        => ~IsPythonFamily(call.effective_language)

\* the first word of the reply to the language request, lower-cased
FirstWord(text) ==
    LowerLexeme(text[CHOOSE i \in 1..Len(text) :
                        /\ text[i] \notin Whitespace
                        /\ \A j \in 1..(i - 1) : text[j] \in Whitespace])

KnownAliases ==
    {"python", "py", "javascript", "js", "typescript", "ts", "java", "c++", "cpp", "c"}

Escalated(f) == f.language_requests = 1 /\ f.pc = "validate"

\* C8 as stated: after the escalation, a failed or unknown answer resolves
\* to "generic" with confidence 0.0 and an answer whose first word is an
\* alias to the normalised name with confidence 0.9.
C8_EscalationFallsBackToGeneric ==
    Escalated(call) =>
        IF \/ IsBlank(call.language_answer)
           \/ HasStubMarker(call.language_answer)
           \/ FirstWord(call.language_answer) \notin KnownAliases
        THEN call.effective_language = "generic" /\ call.detection_confidence = 0
        ELSE /\ call.effective_language = AliasMap[FirstWord(call.language_answer)]
             /\ call.detection_confidence = 90

\* C8 amended: the escalation happens without an override and below a
\* confidence of 0.5.  An empty answer or one that holds the stub marker
\* anywhere resolves to the language and confidence of the heuristic
\* detector; otherwise an answer whose first word is unknown resolves to
\* "generic" with confidence 0.0 and one whose first word is an alias,
\* whatever its case, to the normalised name with confidence 0.9.
C8_EscalationFallsBackToHeuristic ==
    Escalated(call) =>
        /\ call.override_language = ""
        /\ detect_language(call.code).confidence < 50
        /\ IF IsBlank(call.language_answer) \/ HasStubMarker(call.language_answer)
           THEN /\ call.effective_language = detect_language(call.code).language
                /\ call.detection_confidence = detect_language(call.code).confidence
           ELSE IF FirstWord(call.language_answer) \notin KnownAliases
                THEN call.effective_language = "generic" /\ call.detection_confidence = 0
                ELSE /\ call.effective_language \in
                          {"python", "javascript", "typescript", "java", "cpp", "c"}
                     /\ (FirstWord(call.language_answer) \in {"python", "py"}
                            <=> call.effective_language = "python")
                     /\ (FirstWord(call.language_answer) \in {"c++", "cpp"}
                            <=> call.effective_language = "cpp")
                     /\ (FirstWord(call.language_answer) = "c"
                            <=> call.effective_language = "c")
                     /\ call.detection_confidence = 90

C8_Witness ==
    /\ Escalated(call)
    /\ HasStubMarker(call.language_answer)
    /\ call.effective_language = "python"
    /\ call.detection_confidence > 0

(***************************************************************************)
(* Properties of compare_codes (SpecCompare).                              *)
(***************************************************************************)
FailedSides ==
    (IF cmp.a.error = "SyntaxError" THEN <<"A">> ELSE <<>>)
      \o (IF cmp.b.error = "SyntaxError" THEN <<"B">> ELSE <<>>)

\* C5: when the analysis of either side ends in the SyntaxError result,
\* the comparison returns one error result whose message names exactly the
\* failed sides, with no better_version, notes or metrics table; a verdict
\* is returned only when both analyses succeeded.
C5_FailedSideShortCircuits ==
    cmp.pc = "done" =>
        IF FailedSides # <<>>
        THEN /\ DOMAIN cmp.result = {"error", "message"}
             /\ cmp.result.message = FailedSides
        ELSE "better_version" \in DOMAIN cmp.result

\* the verdict of the tie-break chain, written out on the two analysis results
ChainVerdict(a, b) ==
    IF a.risk_score < b.risk_score THEN "A"
    ELSE IF b.risk_score < a.risk_score THEN "B"
    ELSE IF a.cyclomatic_complexity < b.cyclomatic_complexity THEN "A"
    ELSE IF b.cyclomatic_complexity < a.cyclomatic_complexity THEN "B"
    ELSE IF big_o_rank(a.big_o) < big_o_rank(b.big_o) THEN "A"
    ELSE IF big_o_rank(b.big_o) < big_o_rank(a.big_o) THEN "B"
    ELSE "A"

FullTie(a, b) ==
    /\ a.risk_score = b.risk_score
    /\ a.cyclomatic_complexity = b.cyclomatic_complexity
    /\ big_o_rank(a.big_o) = big_o_rank(b.big_o)

\* C9: the verdict is the lexicographic chain over risk score, cyclomatic
\* complexity and time-label rank, the strictly lower value winning at each
\* step and A winning when all three are equal; better_version is always
\* "A" or "B".
C9_VerdictIsLexicographicChain ==
    (cmp.pc = "done" /\ "better_version" \in DOMAIN cmp.result) =>
        /\ cmp.result.better_version \in {"A", "B"}
        /\ cmp.result.better_version = ChainVerdict(cmp.a, cmp.b)

C9_Witness ==
    /\ cmp.pc = "done"
    /\ cmp.a.risk_score = cmp.b.risk_score
    /\ cmp.a.cyclomatic_complexity = cmp.b.cyclomatic_complexity
    /\ big_o_rank(cmp.b.big_o) < big_o_rank(cmp.a.big_o)
    /\ cmp.result.better_version = "B"

OtherLabel(label) == IF label = "A" THEN "B" ELSE "A"

MirroredDeltas(forward, backward) ==
    /\ backward.metrics_comparison.delta.cyclomatic_complexity =
          0 - forward.metrics_comparison.delta.cyclomatic_complexity
    /\ backward.metrics_comparison.delta.risk_score =
          0 - forward.metrics_comparison.delta.risk_score

\* C10 as stated: with the two analysis results fixed, the comparison in
\* the other order names the same code as better, that is, the other label,
\* also when the sides tie on all three keys; and its deltas are the
\* negated deltas.
C10_SymmetryAlsoAtFullTie ==
    (cmp.pc = "done" /\ "better_version" \in DOMAIN cmp.result) =>
        LET backward == compare_verdict(cmp.b, cmp.a)
        IN  /\ backward.better_version = OtherLabel(cmp.result.better_version)
            /\ MirroredDeltas(cmp.result, backward)

\* C10 amended: with the two analysis results fixed, the comparison in the
\* other order names the same code as better (the other label) whenever
\* the sides differ in risk score, cyclomatic complexity or time-label
\* rank; when they tie on all three, both orders answer "A", each its own
\* first argument; in every case the deltas of the other order are the
\* negated deltas.
C10_SymmetryExceptAtFullTie ==
    (cmp.pc = "done" /\ "better_version" \in DOMAIN cmp.result) =>
        LET backward == compare_verdict(cmp.b, cmp.a)
        IN  /\ ~FullTie(cmp.a, cmp.b) =>
                  backward.better_version = OtherLabel(cmp.result.better_version)
            /\ FullTie(cmp.a, cmp.b) =>
                  cmp.result.better_version = "A" /\ backward.better_version = "A"
            /\ MirroredDeltas(cmp.result, backward)

C10_Witness ==
    /\ cmp.pc = "done"
    /\ cmp.a.risk_score = cmp.b.risk_score
    /\ cmp.a.cyclomatic_complexity < cmp.b.cyclomatic_complexity
    /\ cmp.result.better_version = "A"
    /\ cmp.result.metrics_comparison.delta.cyclomatic_complexity > 0

(***************************************************************************)
(* Properties of the calls made with the stub client (SpecCompare).        *)
(***************************************************************************)
\* the language the heuristics alone resolve: the override or the detected
\* language, with the inclusion-directive guard where no request is made
StubLanguage(code, language) ==
    LET override_language == NormaliseTag(language)
        detection == detect_language(code)
    IN  IF override_language # "" THEN SelfHeal(override_language, code)
        ELSE IF detection.confidence < 50 THEN detection.language
        ELSE SelfHeal(detection.language, code)

\* the fields UnifiedAnalysisResponse requires are present
IsPopulated(r) ==
    /\ r.big_o # None
    /\ r.cyclomatic_complexity \in Nat
    /\ r.maintainability \in Nat
    /\ r.security_summary # NoneText
    /\ r.ai_summary # NoneText
    /\ r.risk_level # None
    /\ r.risk_score \in Nat
    /\ r.complexity_trend # None

\* the metrics of r are those of the local heuristics on code as lang
IsHeuristicResult(r, code, lang) ==
    LET cyclomatic == estimate_cyclomatic_complexity(code)
        maintainability == estimate_maintainability(cyclomatic, code)
        big_o == estimate_big_o(code, lang)
        risk == compute_risk(big_o, cyclomatic, security_findings(code), maintainability)
    IN  /\ r.error = None
        /\ r.language_detected = lang
        /\ r.big_o = big_o
        /\ r.time_complexity = big_o
        /\ r.space_complexity = estimate_space_complexity(code, lang)
        /\ r.cyclomatic_complexity = cyclomatic
        /\ r.maintainability = maintainability
        /\ r.security_summary = summarise_security(security_findings(code))
        /\ r.risk_score = risk[1]
        /\ r.risk_level = risk[2]

\* both awaited analyses returned what the stub run returns
BothSidesStubbed ==
    /\ cmp.pc = "done"
    /\ cmp.a = CompareView(StubRun(cmp.code_a, cmp.language).result)
    /\ cmp.b = CompareView(StubRun(cmp.code_b, cmp.language).result)

IsPopulatedVerdict(v, a, b) ==
    /\ DOMAIN v = {"better_version", "improvement_notes", "metrics_comparison"}
    /\ v.better_version \in {"A", "B"}
    /\ v.metrics_comparison.A.big_o = a.big_o
    /\ v.metrics_comparison.A.cyclomatic_complexity = a.cyclomatic_complexity
    /\ v.metrics_comparison.A.risk_score = a.risk_score
    /\ v.metrics_comparison.B.big_o = b.big_o
    /\ v.metrics_comparison.B.cyclomatic_complexity = b.cyclomatic_complexity
    /\ v.metrics_comparison.B.risk_score = b.risk_score

C12_OverridePathIsDeterministic ==
    (/\ call.pc = "done"
     /\ call.override_language # ""
     /\ call.original_valid)
        => AnalyzeResults(call.code, call.language) = {call.result}

\* C13: every call eventually returns a result, also when a request it
\* sent to the AI client (language, correction, summary or refinement) is
\* never answered.
C13_CallEventuallyReturns == <>(call.pc = "done")

\* C14: a call on empty or blank code, with or without an override, ends
\* with the invalid result of kind EmptyInput and message "Empty code",
\* with neutral metrics and no analysis stage run.
C14_EmptyInputResult ==
    (call.pc = "done" /\ IsBlank(call.code)) =>
        /\ call.result.error = "EmptyInput"
        /\ call.result.message = "Empty code"
        /\ call.result.big_o = "N/A"
        /\ call.result.cyclomatic_complexity = 0
        /\ call.result.maintainability = 0
        /\ call.result.risk_score = 0
        /\ call.ran = {}

\* the tags validate_code has rules for: the Python family and the
\* languages of its semicolon rule
ValidatorTags == {"python", "py", "javascript", "typescript", "java", "c", "cpp", "c++"}

\* the validations the call has made: <<language, code, outcome>>
Validations(f) ==
    (IF f.validation # NoneDict
     THEN {<<f.effective_language, f.code, f.validation>>} ELSE {})
      \cup (IF f.revalidation # NoneDict
            THEN {<<f.effective_language, f.corrected_code, f.revalidation>>} ELSE {})

\* C15 as stated: blank code is invalid with "Empty code" under every tag,
\* "generic" included; non-blank code is valid under "generic" and under
\* every tag the validator has no rules for, whatever its brackets and
\* quotes.
C15_UnknownTagAlwaysValid ==
    \A v \in Validations(call) :
        /\ IsBlank(v[2]) => v[3] = ValidationResult(FALSE, "Empty code")
        /\ (~IsBlank(v[2]) /\ v[1] \notin ValidatorTags) => v[3].valid

\* C15 amended: blank code is invalid with "Empty code" under every tag,
\* "generic" included; non-blank code is always valid under "generic"
\* (and under the empty tag); under every other tag outside the Python
\* family, one the validator has no rules for included (e.g. "ruby"), the
\* bracket and quote checks apply: unbalanced brackets give "Unbalanced
\* brackets/braces", else an odd number of quotes gives "Unbalanced quotes",
\* and under a tag the validator has no rules for balanced code is valid.
C15_UnknownTagGetsStructuralChecks ==
    \A v \in Validations(call) :
        /\ IsBlank(v[2]) => v[3] = ValidationResult(FALSE, "Empty code")
        /\ (~IsBlank(v[2]) /\ v[1] = "generic") => v[3].valid
        /\ (~IsBlank(v[2]) /\ v[1] \notin {"generic", "python", "py"}) =>
              /\ ~balanced_brackets(v[2]) =>
                    v[3] = ValidationResult(FALSE, "Unbalanced brackets/braces")
              /\ (balanced_brackets(v[2]) /\ ~balanced_quotes(v[2])) =>
                    v[3] = ValidationResult(FALSE, "Unbalanced quotes")
              /\ (balanced_brackets(v[2]) /\ balanced_quotes(v[2])
                     /\ v[1] \notin ValidatorTags) => v[3].valid

C15_Witness ==
    /\ call.validations >= 1
    /\ call.effective_language = "ruby"
    /\ ~IsBlank(call.code)
    /\ call.validation = ValidationResult(FALSE, "Unbalanced quotes")

(***************************************************************************)
(* Properties of _compute_risk (SpecRisk).                                 *)
(***************************************************************************)
Indicator(b) == IF b THEN 1 ELSE 0

LevelOfScore(score) ==
    CASE score \in 0..2 -> "Low"
      [] score \in 3..4 -> "Medium"
      [] score \in 5..6 -> "High"
      [] OTHER -> "Critical"

LevelRank(level) ==
    CASE level = "Low" -> 1
      [] level = "Medium" -> 2
      [] level = "High" -> 3
      [] level = "Critical" -> 4

\* C16: the risk score is 2 for a time label that contains "n^2", plus 2
\* for a cyclomatic complexity above 15, plus 3 for at least one security
\* finding, plus 2 for a maintainability below 50; the level is Low for 0-2,
\* Medium for 3-4, High for 5-6 and Critical from 7 on, a function of the
\* score alone that never decreases when the score grows.
C16_RiskScoreAndLevel ==
    risk_call.pc = "done" =>
        /\ risk_call.score =
              2 * Indicator(risk_call.big_o \in {"O(n^2)", "O(n^2 log n)"})
                + 2 * Indicator(risk_call.cyclomatic_complexity > 15)
                + 3 * Indicator(Len(risk_call.security_issues) >= 1)
                + 2 * Indicator(risk_call.maintainability < 500)
        /\ risk_call.level = LevelOfScore(risk_call.score)
        /\ \A s \in 0..9 :
              s >= risk_call.score =>
                  LevelRank(RiskLevel(s)) >= LevelRank(risk_call.level)

C16_Witness ==
    /\ risk_call.pc = "done"
    /\ risk_call.score = 4
    /\ risk_call.level = "Medium"
    /\ risk_call.cyclomatic_complexity = 16

\* C17: with the time label, the findings and the maintainability held
\* fixed, the risk score never decreases when the cyclomatic complexity
\* grows; in particular the score for a complexity above 16 is at least the
\* score for a complexity of at most 15.
C17_RiskMonotoneInCyclomatic ==
    risk_call.pc = "done" =>
        \A c \in 0..MaxCyclomatic :
            c >= risk_call.cyclomatic_complexity =>
                RiskScore(risk_call.big_o, c, risk_call.security_issues,
                          risk_call.maintainability) >= risk_call.score

C17_Witness ==
    /\ risk_call.pc = "done"
    /\ risk_call.cyclomatic_complexity = 15
    /\ RiskScore(risk_call.big_o, 17, risk_call.security_issues,
                 risk_call.maintainability) = risk_call.score + 2

(***************************************************************************)
(* Properties of concurrent calls (SpecConcurrent).                        *)
(***************************************************************************)
\* the frame in which a call on the code and language of f ends when it
\* runs alone and gets the replies f got
RunAlone(f) ==
    LET f0 == analyze_begin(NewCall(f.code, f.language))
        f1 == IF f0.pc = "await_language" THEN language_reply(f0, f.language_answer) ELSE f0
        f2 == initial_validation(f1)
        f3 == IF f2.pc = "await_correction"
              THEN correction_reply(f2, f.correction_answer) ELSE f2
        f4 == IF f3.pc = "analyze" THEN local_analysis(f3) ELSE f3
        f5 == IF f4.pc = "await_summary" THEN summary_reply(f4, f.ai_summary) ELSE f4
    IN  IF f5.pc = "await_refinement" THEN refinement_reply(f5, f.refinement_answer) ELSE f5

\* C18: whatever the interleaving of the calls at their awaits, each call
\* returns the result it returns when it runs alone with the same replies,
\* and ends with the working code, language, validation and metrics of
\* that run: no call reads or writes what belongs to another.
C18_CallsDoNotInterfere ==
    \A i \in CallIds :
        calls.frames[i].pc = "done" => calls.frames[i] = RunAlone(calls.frames[i])

C18_Witness ==
    /\ \A i \in CallIds : calls.frames[i].pc = "done"
    /\ calls.frames[1].code = calls.frames[2].code
    /\ calls.frames[1].language = calls.frames[2].language
    /\ calls.frames[1].effective_language # calls.frames[2].effective_language
    /\ calls.frames[1].result.error = None
    /\ calls.frames[2].result.error = "SyntaxError"

(***************************************************************************)
(* Order of the requests to the AI client within one call (Spec).          *)
(***************************************************************************)
\* no override was given and the heuristic confidence is below 0.5
BelowConfidence(f) ==
    NormaliseTag(f.language) = "" /\ detect_language(f.code).confidence < 50

\* C19: the language request is made exactly when no override was given
\* and the heuristic confidence is below 0.5, and is answered before the
\* first validation; the correction request is made exactly when the first
\* validation is invalid; the summary and refinement requests are made only
\* once the code is accepted as valid, the refinement after the summary;
\* while a request is pending none of the later ones has been made.
C19_RequestsAreSequentialAndGated ==
    /\ (call.pc = "await_language" \/ call.language_requests >= 1) => BelowConfidence(call)
    /\ call.pc = "await_language" =>
          call.validations = 0 /\ call.corrections = 0 /\ call.ran = {}
    /\ call.validations >= 1 => (call.language_requests = 1 <=> BelowConfidence(call))
    /\ (call.pc = "await_correction" \/ call.corrections >= 1) =>
          call.validations >= 1 /\ ~call.validation.valid
    /\ call.pc = "await_correction" => call.corrections = 0 /\ call.ran = {}
    /\ call.pc \in {"analyze", "await_summary", "await_refinement", "done"} =>
          (call.corrections = 1 <=> ~call.validation.valid)
    /\ (call.pc \in {"await_summary", "await_refinement"}
          \/ call.ran \cap {"ai_summary", "semantic_refiner"} # {}) =>
          LastValidation(call).valid
    /\ call.pc = "await_summary" => call.ran \cap {"ai_summary", "semantic_refiner"} = {}
    /\ (call.pc = "await_refinement" \/ "semantic_refiner" \in call.ran) =>
          "ai_summary" \in call.ran
    /\ call.pc = "await_refinement" => "semantic_refiner" \notin call.ran

C19_Witness ==
    /\ call.pc = "done"
    /\ call.language_requests = 1
    /\ call.corrections = 1
    /\ {"ai_summary", "semantic_refiner"} \subseteq call.ran

(***************************************************************************)
(* The refinement of the complexity labels (Spec).                         *)
(***************************************************************************)
\* the labels and the risk of the result are those of the heuristics
HasPreliminaryLabels(f) ==
    LET big_o == estimate_big_o(f.final_code, f.effective_language)
    IN  /\ f.result.big_o = big_o
        /\ f.result.time_complexity = big_o
        /\ f.result.space_complexity =
              estimate_space_complexity(f.final_code, f.effective_language)
        /\ f.result.risk_score =
              RiskScore(big_o, f.cyclomatic, f.findings, f.maintainability)
        /\ f.result.algorithm = None

\* C20: the refiner is asked only for the Python family, and then always;
\* when its reply is marked stubbed or unparsable the refinement is
\* discarded and the returned time and space labels, and the risk score,
\* are the preliminary ones of the heuristics; for every other language
\* the refiner is not asked and the labels are those of the heuristics.
C20_RefinementOnlyForPythonAndDiscardable ==
    /\ (call.pc = "await_refinement" \/ "semantic_refiner" \in call.ran) =>
          call.effective_language \in {"python", "py"}
    /\ (call.pc = "done" /\ call.result.error = None) =>
          /\ "semantic_refiner" \in call.ran <=> call.effective_language \in {"python", "py"}
          /\ ("semantic_refiner" \in call.ran
                /\ (call.refinement_answer.stubbed \/ call.refinement_answer.parse_error))
                => HasPreliminaryLabels(call)
          /\ "semantic_refiner" \notin call.ran =>
                call.refinement_answer = NoneDict /\ HasPreliminaryLabels(call)

C20_Witness ==
    /\ call.pc = "done"
    /\ "semantic_refiner" \in call.ran
    /\ call.refinement_answer.parse_error
    /\ call.result.time_complexity = "O(1)"
    /\ call.was_corrected

(***************************************************************************)
(* services/analysis_engine.py: _estimate_big_o on a Python text that      *)
(* parses, lines 145-209.  The syntax tree is a forest of nodes            *)
(* [kind, name, body]: "FunctionDef" (def name), "Call" (a call of the     *)
(* plain name `name`, body its argument expressions), "For", "While", and  *)
(* "Halve", an assignment such as `high = (low + high) // 2` whose text    *)
(* holds a range variable and a halving.  An empty body stands for `pass`. *)
(***************************************************************************)
MaxSelfCalls == 2

MaxLoopDepth == 2

LoopKinds == {"For", "While"}

Node(kind, name, body) == [kind |-> kind, name |-> name, body |-> body]

RECURSIVE Repeat(_, _)
\* n copies of the statement
Repeat(stmt, n) == IF n = 0 THEN <<>> ELSE <<stmt>> \o Repeat(stmt, n - 1)

\* The shape of a module: a chain of nested loops, the kinds outermost first;
\* self_calls calls of f and other_calls calls of g at nesting level
\* calls_at; a halving assignment at level halve_at (-1: none); level 0 is
\* outside every loop; the whole inside `def f` or at the top of the module.
TreeShapes ==
    UNION {[loops : [1..depth -> LoopKinds],
            self_calls : 0..MaxSelfCalls,
            other_calls : 0..1,
            calls_at : 0..depth,
            halve_at : (-1)..depth,
            in_function : BOOLEAN] : depth \in 0..MaxLoopDepth}

\* the statements of the shape at one nesting level, without the inner loop
StatementsAt(shape, level) ==
    (IF shape.halve_at = level THEN <<Node("Halve", None, <<>>)>> ELSE <<>>)
    \o (IF shape.calls_at = level
         THEN Repeat(Node("Call", "f", <<>>), shape.self_calls)
              \o Repeat(Node("Call", "g", <<>>), shape.other_calls)
         ELSE <<>>)

RECURSIVE BodyAt(_, _)
\* the statement list at one nesting level
BodyAt(shape, level) ==
    StatementsAt(shape, level)
    \o (IF level < Len(shape.loops)
         THEN <<Node(shape.loops[level + 1], None, BodyAt(shape, level + 1))>>
         ELSE <<>>)

\* the syntax tree ast.parse gives for a text of the shape, line 141
TreeOf(shape) ==
    IF shape.in_function THEN <<Node("FunctionDef", "f", BodyAt(shape, 0))>>
    ELSE BodyAt(shape, 0)

SyntaxTrees == {TreeOf(shape) : shape \in TreeShapes}

RECURSIVE HasHalving(_)
\* ast.unparse(node).lower() holds a range variable and a halving, line 179-184
HasHalving(body) ==
    \E i \in 1..Len(body) : body[i].kind = "Halve" \/ HasHalving(body[i].body)

\* ComplexityVisitor.__init__, lines 146-151
NewVisitor ==
    [loop_depth |-> 0, max_loop_depth |-> 0, self_calls_per_func |-> <<>>,
     current_func |-> None, has_log_loop |-> FALSE]

\* dict.setdefault(name, 0) on the dictionary kept as a list of <<name, count>>
SetDefault(d, name) ==
    IF \E i \in 1..Len(d) : d[i][1] = name THEN d ELSE Append(d, <<name, 0>>)

\* d[name] += 1
Increment(d, name) ==
    [i \in 1..Len(d) |-> IF d[i][1] = name THEN <<name, d[i][2] + 1>> ELSE d[i]]

RECURSIVE Visit(_, _), VisitAll(_, _, _)
\* generic_visit: the children in order
VisitAll(body, i, v) ==
    IF i > Len(body) THEN v ELSE VisitAll(body, i + 1, Visit(body[i], v))

\* visit_FunctionDef, visit_Call, visit_For, visit_While, lines 153-187
Visit(node, v) ==
    IF node.kind = "FunctionDef"
    THEN LET inner == VisitAll(node.body, 1,
                        [v EXCEPT !.current_func = node.name,
                                  !.self_calls_per_func = SetDefault(@, node.name)])
         IN  [inner EXCEPT !.current_func = v.current_func]
    ELSE IF node.kind = "Call"
    THEN VisitAll(node.body, 1,
            IF v.current_func # None /\ node.name = v.current_func
            THEN [v EXCEPT !.self_calls_per_func = Increment(@, v.current_func)]
            ELSE v)
    ELSE IF node.kind = "For"
    THEN LET inner == VisitAll(node.body, 1,
                        [v EXCEPT !.loop_depth = @ + 1,
                                  !.max_loop_depth = Max(@, v.loop_depth + 1)])
         IN  [inner EXCEPT !.loop_depth = @ - 1]
    ELSE IF node.kind = "While"
    THEN LET inner == VisitAll(node.body, 1,
                        [v EXCEPT !.loop_depth = @ + 1,
                                  !.max_loop_depth = Max(@, v.loop_depth + 1),
                                  !.has_log_loop = @ \/ HasHalving(node.body)])
         IN  [inner EXCEPT !.loop_depth = @ - 1]
    ELSE v

RECURSIVE MaxCount(_, _)
\* max(self_calls_per_func.values(), default=0), line 193
MaxCount(d, i) ==
    IF i > Len(d) THEN 0 ELSE Max(d[i][2], MaxCount(d, i + 1))

\* what lines 189-193 hand to the decision chain
visit_summary(tree) ==
    LET visitor == VisitAll(tree, 1, NewVisitor)
    IN  [has_log_loop |-> visitor.has_log_loop,
         max_self_calls |-> MaxCount(visitor.self_calls_per_func, 1),
         max_loop_depth |-> visitor.max_loop_depth]

\* One call of _estimate_big_o on a Python text with the syntax tree `tree`.
InitBigO ==
    /\ call = IdleCall
    /\ cmp = IdleCompare
    /\ calls = IdleCalls
    /\ risk_call = IdleRisk
    /\ fn_call \in {[pc |-> "start", tree |-> tree, summary |-> NoneDict, big_o |-> None] :
                       tree \in SyntaxTrees}

EstimateBigO ==
    /\ fn_call.pc = "start"
    /\ LET summary == visit_summary(fn_call.tree)
       IN  fn_call' = [fn_call EXCEPT !.summary = summary,
                                      !.big_o = big_o_of_summary(summary),
                                      !.pc = "done"]
    /\ UNCHANGED <<call, cmp, calls, risk_call>>

NextBigO == EstimateBigO

SpecBigO == InitBigO /\ [][NextBigO]_vars

(***************************************************************************)
(* C21                                                                     *)
(***************************************************************************)
TimeLabels == {"O(1)", "O(log n)", "O(n)", "O(n^2)", "O(2^n)"}

\* C21: on the Python path the time label follows from the traversal summary
\* by first match: log-loop flag -> O(log n); maximum self-calls >= 2 ->
\* O(2^n); = 1 -> O(n); loop depth >= 2 -> O(n^2); = 1 -> O(n); otherwise
\* O(1).  So, when the log-loop flag is not set, one self-call with a loop of
\* depth 1 gives O(n) and self-recursion with loops nested 2 deep gives O(n)
\* or O(2^n), never O(n^2); and the label is always one of the five labels.
C21_LabelFollowsDecisionChain ==
    fn_call.pc = "done" =>
        LET s == fn_call.summary
            label == fn_call.big_o
        IN  /\ s.has_log_loop => label = "O(log n)"
            /\ ~s.has_log_loop /\ s.max_self_calls >= 2 => label = "O(2^n)"
            /\ ~s.has_log_loop /\ s.max_self_calls = 1 => label = "O(n)"
            /\ ~s.has_log_loop /\ s.max_self_calls = 0 /\ s.max_loop_depth >= 2
                  => label = "O(n^2)"
            /\ ~s.has_log_loop /\ s.max_self_calls = 0 /\ s.max_loop_depth = 1
                  => label = "O(n)"
            /\ ~s.has_log_loop /\ s.max_self_calls = 0 /\ s.max_loop_depth = 0
                  => label = "O(1)"
            /\ ~s.has_log_loop /\ s.max_self_calls = 1 /\ s.max_loop_depth = 1
                  => label = "O(n)"
            /\ ~s.has_log_loop /\ s.max_self_calls >= 1 /\ s.max_loop_depth >= 2
                  => label \in {"O(n)", "O(2^n)"}
            /\ label \in TimeLabels

\* a function calling itself once inside two nested loops is labelled O(n)
C21_Witness ==
    /\ fn_call.pc = "done"
    /\ ~fn_call.summary.has_log_loop
    /\ fn_call.summary.max_self_calls = 1
    /\ fn_call.summary.max_loop_depth = 2
    /\ fn_call.big_o = "O(n)"

\* C21 as stated: the two consequences hold of every tree, whatever the
\* log-loop flag
C21_RecursionDecidesInEveryTree ==
    fn_call.pc = "done" =>
        LET s == fn_call.summary
            label == fn_call.big_o
        IN  /\ s.max_self_calls = 1 /\ s.max_loop_depth = 1 => label = "O(n)"
            /\ s.max_self_calls >= 1 /\ s.max_loop_depth >= 2
                  => label \in {"O(n)", "O(2^n)"}
            /\ label \in TimeLabels

(***************************************************************************)
(* services/compare.py: _big_o_rank on the labels of the two sides of a    *)
(* comparison: the estimator's labels, labels a refiner may answer, the    *)
(* placeholder of the error result, and a missing label.                   *)
(***************************************************************************)
RankLabels ==
    {"O(1)", "O(log n)", "O(n)", "O(n log n)", "O(n^2)", "O(n^2 log n)", "O(2^n)",
     "N/A", None}

\* (big_o or "") of line 125: a missing label is the empty text, which holds
\* none of the substrings
OrEmpty(big_o) == IF big_o = None THEN "" ELSE big_o

InitRank ==
    /\ call = IdleCall
    /\ cmp = IdleCompare
    /\ calls = IdleCalls
    /\ risk_call = IdleRisk
    /\ fn_call \in {[pc |-> "start", a_big_o |-> a, b_big_o |-> b,
                     a_big_o_rank |-> 0, b_big_o_rank |-> 0] :
                       a \in RankLabels, b \in RankLabels}

RankLabelsOfSides ==
    /\ fn_call.pc = "start"
    /\ fn_call' = [fn_call EXCEPT !.a_big_o_rank = big_o_rank(OrEmpty(fn_call.a_big_o)),
                                  !.b_big_o_rank = big_o_rank(OrEmpty(fn_call.b_big_o)),
                                  !.pc = "done"]
    /\ UNCHANGED <<call, cmp, calls, risk_call>>

NextRank == RankLabelsOfSides

SpecRank == InitRank /\ [][NextRank]_vars

(***************************************************************************)
(* C22                                                                     *)
(***************************************************************************)
RecognisedLabels == {"O(1)", "O(n)", "O(n^2)"}

\* C22: the rank of the time label puts O(1) strictly before O(n), O(n)
\* strictly before O(n^2), and every label outside {O(1), O(n), O(n^2)},
\* O(log n), O(2^n) and 'N/A' among them, strictly after O(n^2).
C22_UnrecognisedLabelsRankLast ==
    fn_call.pc = "done" =>
        /\ fn_call.a_big_o = "O(1)" /\ fn_call.b_big_o = "O(n)"
              => fn_call.a_big_o_rank < fn_call.b_big_o_rank
        /\ fn_call.a_big_o = "O(n)" /\ fn_call.b_big_o = "O(n^2)"
              => fn_call.a_big_o_rank < fn_call.b_big_o_rank
        /\ fn_call.a_big_o = "O(n^2)" /\ fn_call.b_big_o \notin RecognisedLabels
              => fn_call.a_big_o_rank < fn_call.b_big_o_rank

(***************************************************************************)
(* services/validators.py: validate_code on texts of several lines for the *)
(* languages that get the structural checks.                               *)
(***************************************************************************)
\* most lines of a submitted text
MaxValLines == 3

\* what one line of the text holds
ValLines ==
    {<<>>, <<" ">>, <<"self">>, <<";">>, <<"(">>, <<")">>, <<"]">>, <<"'">>, <<Backtick>>}

RECURSIVE JoinLines(_, _)
\* "\n".join(lines)
JoinLines(lines, i) ==
    IF i > Len(lines) THEN <<>>
    ELSE IF i = Len(lines) THEN lines[i]
    ELSE lines[i] \o <<"\n">> \o JoinLines(lines, i + 1)

ValCodes == {JoinLines(lines, 1) : lines \in SeqsUpTo(ValLines, MaxValLines)}

StructuralLanguages == {"c", "c++", "ruby"}

InitValidate ==
    /\ call = IdleCall
    /\ cmp = IdleCompare
    /\ calls = IdleCalls
    /\ risk_call = IdleRisk
    /\ fn_call \in {[pc |-> "start", language |-> language, code |-> code,
                     result |-> NoneDict] :
                       language \in StructuralLanguages, code \in ValCodes}

ValidateCode ==
    /\ fn_call.pc = "start"
    /\ fn_call' = [fn_call EXCEPT !.result = validate_code(fn_call.language, fn_call.code),
                                  !.pc = "done"]
    /\ UNCHANGED <<call, cmp, calls, risk_call>>

NextValidate == ValidateCode

SpecValidate == InitValidate /\ [][NextValidate]_vars

(***************************************************************************)
(* C23                                                                     *)
(***************************************************************************)
\* the bracket characters of the text, in order
RECURSIVE BracketsOf(_, _)
BracketsOf(code, i) ==
    IF i > Len(code) THEN <<>>
    ELSE (IF code[i] \in {"(", ")", "{", "}", "[", "]"} THEN <<code[i]>> ELSE <<>>)
         \o BracketsOf(code, i + 1)

MatchingPairs == {<<"(", ")">>, <<"{", "}">>, <<"[", "]">>}

\* well nested: deleting adjacent matching pairs, one after the other, leaves
\* nothing
RECURSIVE ReducesToNothing(_)
ReducesToNothing(s) ==
    IF s = <<>> THEN TRUE
    ELSE \E i \in 1..(Len(s) - 1) :
            /\ <<s[i], s[i + 1]>> \in MatchingPairs
            /\ ReducesToNothing(SubSeq(s, 1, i - 1) \o SubSeq(s, i + 2, Len(s)))

WellNested(code) == ReducesToNothing(BracketsOf(code, 1))

OddQuotes(code) ==
    \E q \in {"'", "\"", Backtick} :
        Cardinality({i \in 1..Len(code) : code[i] = q}) % 2 = 1

\* the lines that hold something other than blanks
NonBlankLines(code) ==
    LET lines == SplitLines(code)
    IN  {i \in 1..Len(lines) : \E k \in 1..Len(lines[i]) : lines[i][k] # " "}

MissingSemicolons(language, code) ==
    /\ language \in {"javascript", "typescript", "java", "c", "cpp", "c++"}
    /\ Cardinality(NonBlankLines(code)) >= 3
    /\ \A i \in 1..Len(code) : code[i] # ";"

\* C23: for code that is not blank and a language with structural checks
\* only, the validator reports the first failing check in the order
\* brackets, quotes, semicolons: 'Unbalanced brackets/braces' iff the
\* brackets are not well nested; else 'Unbalanced quotes' iff the single,
\* the double or the backtick quotes are odd in number; else 'No semicolons
\* found in multi-line code' iff the language is semicolon-terminated, 3 or
\* more lines are not blank and there is no ';'; else the code is valid.
C23_FirstFailingStructuralCheck ==
    fn_call.pc = "done" /\ ~IsBlank(fn_call.code) =>
        LET code == fn_call.code
            expected ==
                IF ~WellNested(code) THEN "Unbalanced brackets/braces"
                ELSE IF OddQuotes(code) THEN "Unbalanced quotes"
                ELSE IF MissingSemicolons(fn_call.language, code)
                     THEN "No semicolons found in multi-line code"
                ELSE None
        IN  /\ fn_call.result.error = expected
            /\ fn_call.result.valid = (expected = None)

\* three lines that are not blank, with balanced brackets and no quote or
\* semicolon, in a semicolon-terminated language
C23_Witness ==
    /\ fn_call.pc = "done"
    /\ ~IsBlank(fn_call.code)
    /\ Contains(fn_call.code, "(")
    /\ fn_call.language = "c++"
    /\ fn_call.result.error = "No semicolons found in multi-line code"

(***************************************************************************)
(* services/language_detector.py: detect_language on texts that hold       *)
(* signals of several languages.                                           *)
(***************************************************************************)
\* longest text handed to detect_language, in lexemes
MaxDetectLen == 3

DetectAlphabet ==
    {"def ", "self", "console.log", "=>", "#include", "std::", "printf(", "interface ",
     "public class", "x"}

DetectCodes == SeqsUpTo(DetectAlphabet, MaxDetectLen)

InitDetect ==
    /\ call = IdleCall
    /\ cmp = IdleCompare
    /\ calls = IdleCalls
    /\ risk_call = IdleRisk
    /\ fn_call \in {[pc |-> "start", code |-> code, result |-> NoneDict] :
                       code \in DetectCodes}

DetectLanguage ==
    /\ fn_call.pc = "start"
    /\ fn_call' = [fn_call EXCEPT !.result = detect_language(fn_call.code), !.pc = "done"]
    /\ UNCHANGED <<call, cmp, calls, risk_call>>

NextDetect == DetectLanguage

SpecDetect == InitDetect /\ [][NextDetect]_vars

(***************************************************************************)
(* C24                                                                     *)
(***************************************************************************)
\* the place of a language in the fixed order
OrderOf(lang) == CHOOSE i \in 1..Len(SignalLanguages) : SignalLanguages[i] = lang

Matched(code, lang) == Cardinality({pat \in Signals(lang) : \E i \in 1..Len(code) : code[i] = pat})

\* C24: detect_language returns the language with the highest count of
\* matched signals, the first in the order python, javascript, java, cpp, c,
\* typescript among those that share the highest count; 'generic' with
\* confidence 0.0 when every count is zero; otherwise the confidence is the
\* matched count over the number of signals of the chosen language (here in
\* hundredths, rounded down), more than 0 and at most 1.
C24_FirstLanguageWithHighestCount ==
    fn_call.pc = "done" =>
        LET code == fn_call.code
            r == fn_call.result
            languages == {SignalLanguages[i] : i \in 1..Len(SignalLanguages)}
        IN  IF \A lang \in languages : Matched(code, lang) = 0
            THEN r.language = "generic" /\ r.confidence = 0
            ELSE /\ r.language \in languages
                 /\ \A lang \in languages :
                       /\ Matched(code, lang) <= Matched(code, r.language)
                       /\ Matched(code, lang) = Matched(code, r.language)
                             => OrderOf(r.language) <= OrderOf(lang)
                 /\ r.confidence * Cardinality(Signals(r.language))
                       <= 100 * Matched(code, r.language)
                 /\ (r.confidence + 1) * Cardinality(Signals(r.language))
                       > 100 * Matched(code, r.language)
                 /\ r.confidence > 0
                 /\ r.confidence <= 100

\* one signal of javascript and one of typescript: javascript, 1 of 6
C24_Witness ==
    /\ fn_call.pc = "done"
    /\ Matched(fn_call.code, "javascript") = 1
    /\ Matched(fn_call.code, "typescript") = 1
    /\ fn_call.result.language = "javascript"
    /\ fn_call.result.confidence = 16

(***************************************************************************)
(* services/compare.py: compare_versions, the raw line diff.               *)
(***************************************************************************)
\* [line for line in lines if line not in others]
LinesNotIn(lines, others) ==
    SelectSeq(lines, LAMBDA line : \A i \in 1..Len(others) : others[i] # line)

compare_versions(original_code, modified_code) ==
    LET original_lines == SplitLines(original_code)
        modified_lines == SplitLines(modified_code)
        added == LinesNotIn(modified_lines, original_lines)
        removed == LinesNotIn(original_lines, modified_lines)
    IN  [diff |-> [added |-> added, removed |-> removed, changed |-> <<>>],
         risk_score |-> Len(added) + Len(removed)]

\* most lines of either text
MaxDiffLines == 3

DiffLines == {<<>>, <<" ">>, <<"self">>}

DiffCodes == {JoinLines(lines, 1) : lines \in SeqsUpTo(DiffLines, MaxDiffLines)}

InitDiff ==
    /\ call = IdleCall
    /\ cmp = IdleCompare
    /\ calls = IdleCalls
    /\ risk_call = IdleRisk
    /\ fn_call \in {[pc |-> "start", original_code |-> a, modified_code |-> b,
                     result |-> NoneDict] : a \in DiffCodes, b \in DiffCodes}

CompareVersions ==
    /\ fn_call.pc = "start"
    /\ fn_call' = [fn_call EXCEPT
                      !.result = compare_versions(fn_call.original_code,
                                                  fn_call.modified_code),
                      !.pc = "done"]
    /\ UNCHANGED <<call, cmp, calls, risk_call>>

NextDiff == CompareVersions

SpecDiff == InitDiff /\ [][NextDiff]_vars

(***************************************************************************)
(* C25                                                                     *)
(***************************************************************************)
IsBlankLine(line) == \A k \in 1..Len(line) : line[k] = " "

RECURSIVE LinesAt(_, _, _)
\* the lines at the places `keep` (or at the other places), in order
LinesAt(lines, i, keep) ==
    IF i > Len(lines) THEN <<>>
    ELSE (IF i \in keep THEN <<lines[i]>> ELSE <<>>) \o LinesAt(lines, i + 1, keep)

\* the ways to get the lines b from the lines a by inserting blank lines
\* only: the places of b that hold the lines of a
Insertions(a, b) ==
    {kept \in SUBSET (1..Len(b)) :
        /\ LinesAt(b, 1, kept) = a
        /\ \A i \in (1..Len(b)) \ kept : IsBlankLine(b[i])}

\* C25: when B is A with blank lines inserted and nothing else, 'added' is
\* exactly the inserted blank lines and 'removed' is empty, also when A
\* already contains a blank line.
C25_InsertedBlankLinesAreReported ==
    fn_call.pc = "done" =>
        LET a == SplitLines(fn_call.original_code)
            b == SplitLines(fn_call.modified_code)
        IN  Insertions(a, b) # {} =>
               /\ \E kept \in Insertions(a, b) :
                     fn_call.result.diff.added = LinesAt(b, 1, (1..Len(b)) \ kept)
               /\ fn_call.result.diff.removed = <<>>

(***************************************************************************)
(* C26                                                                     *)
(***************************************************************************)
QuadraticLabels == {"O(n^2)", "O(n^2 log n)"}

\* C26: in every successful result big_o and time_complexity are the same
\* label, with or without an adopted answer of the refiner, and the risk
\* score counts the 2 points of a quadratic label exactly when the returned
\* big_o holds 'n^2'.
C26_ReturnedLabelDrivesRisk ==
    call.pc = "done" /\ call.result.error = None =>
        LET r == call.result
        IN  /\ r.big_o = r.time_complexity
            /\ r.risk_score =
                  2 * Indicator(r.big_o \in QuadraticLabels)
                    + 2 * Indicator(r.cyclomatic_complexity > 15)
                    + 3 * Indicator(call.findings # <<>>)
                    + 2 * Indicator(r.maintainability < 500)

\* the refiner's O(n^2) replaced a local O(1) and the score has its 2 points
C26_Witness ==
    /\ call.pc = "done"
    /\ call.result.error = None
    /\ call.refined # NoneDict
    /\ estimate_big_o(call.final_code, call.effective_language) = "O(1)"
    /\ call.result.big_o = "O(n^2)"
    /\ call.result.time_complexity = "O(n^2)"
    /\ call.result.risk_score = 2

(***************************************************************************)
(* C27                                                                     *)
(***************************************************************************)
\* the metrics of the result are those of the code
MetricsAreOf(f, code) ==
    LET r == f.result
        cyclomatic == estimate_cyclomatic_complexity(code)
    IN  /\ r.cyclomatic_complexity = cyclomatic
        /\ r.maintainability = estimate_maintainability(cyclomatic, code)
        /\ r.security_summary = summarise_security(security_findings(code))
        /\ f.refined = NoneDict =>
              /\ r.big_o = estimate_big_o(code, r.language_detected)
              /\ r.space_complexity = estimate_space_complexity(code, r.language_detected)

\* C27: in every result, was_corrected implies original_valid false and no
\* error; corrected_code is present exactly when was_corrected, and is then
\* the code the metrics were computed over; a 'SyntaxError' result has
\* was_corrected false, original_valid false and no corrected_code; and
\* original_valid implies that the metrics are those of the submitted code
\* and that no correction was requested.
C27_CorrectionBookkeeping ==
    call.pc = "done" =>
        LET r == call.result
        IN  /\ r.was_corrected => ~r.original_valid /\ r.error = None
            /\ (r.corrected_code # NoneText) <=> r.was_corrected
            /\ r.was_corrected => MetricsAreOf(call, r.corrected_code)
            /\ r.error = "SyntaxError" =>
                  /\ ~r.was_corrected
                  /\ ~r.original_valid
                  /\ r.corrected_code = NoneText
            /\ r.original_valid =>
                  /\ r.error = None
                  /\ MetricsAreOf(call, call.code)
                  /\ call.corrections = 0

\* a corrected call whose corrected code has fewer lines than the submission
C27_Witness ==
    /\ call.pc = "done"
    /\ call.result.was_corrected
    /\ call.corrections = 1
    /\ call.result.corrected_code # call.code
    /\ LineCount(call.result.corrected_code) < LineCount(call.code)
    /\ call.result.maintainability =
          estimate_maintainability(call.result.cyclomatic_complexity,
                                   call.result.corrected_code)

====
